---- MODULE Spec2Model ----
(***************************************************************************)
(* Model of the genealogy core of tigersan/genealogy: the TreeBuilder of   *)
(* src/tree_builder.py over the storage operations of src/database.py.     *)
(*                                                                         *)
(* Representation.                                                         *)
(*  - A name is a sequence of one-character tokens.  A Polish letter with  *)
(*    a diacritic is written as its base letter followed by "_" ("s_" is   *)
(*    s-acute, "l_" is l-stroke, "o_" is o-acute, "z_" is z-dot, "z__" is  *)
(*    z-acute); an upper-case letter is the upper-case token.  NoName is   *)
(*    Python's None, <<>> is the empty string.                             *)
(*  - A similarity score is the exact fraction <<num, den>> of the float   *)
(*    the code computes; scores are compared by cross-multiplication.      *)
(*  - A date is <<year, month, day>>, compared through its proleptic       *)
(*    Gregorian ordinal as datetime.date does.                             *)
(*  - The storage behind db is a set of tables.  db.session.query(X).all() *)
(*    reads table X in id order; an attribute assignment on a loaded row   *)
(*    followed by session.commit() updates the row.                        *)
(***************************************************************************)
EXTENDS Integers, Sequences, FiniteSets, TLC

\* Python's None, one per type of field
NoName == <<"None">>
NoPlace == "None"
NoDate == <<>>
NoInt == 0 - 1
NoId == 0

\* Python truthiness ("not x") per type of field
FalsyName(n) == n = NoName \/ n = <<>>
FalsyStr(s) == s = NoPlace \/ s = ""
FalsyInt(i) == i = NoInt \/ i = 0

Max2(a, b) == IF a >= b THEN a ELSE b
Min2(a, b) == IF a <= b THEN a ELSE b
Abs(a) == IF a < 0 THEN 0 - a ELSE a

\* the value of an expression computed once: The({ e(x) : x \in {v} }) is
\* e with x naming the value of v, as a local variable of the code does
The(S) == CHOOSE x \in S : TRUE

(***************************************************************************)
(* NameNormalizer: TreeBuilder._normalize_name                             *)
(***************************************************************************)
LowerOf(c) ==
  CASE c = "A" -> "a" [] c = "B" -> "b" [] c = "C" -> "c" [] c = "D" -> "d"
    [] c = "E" -> "e" [] c = "F" -> "f" [] c = "G" -> "g" [] c = "H" -> "h"
    [] c = "I" -> "i" [] c = "J" -> "j" [] c = "K" -> "k" [] c = "L" -> "l"
    [] c = "M" -> "m" [] c = "N" -> "n" [] c = "O" -> "o" [] c = "P" -> "p"
    [] c = "R" -> "r" [] c = "S" -> "s" [] c = "T" -> "t" [] c = "U" -> "u"
    [] c = "W" -> "w" [] c = "Y" -> "y" [] c = "Z" -> "z"
    [] c = "A_" -> "a_" [] c = "C_" -> "c_" [] c = "E_" -> "e_"
    [] c = "L_" -> "l_" [] c = "N_" -> "n_" [] c = "O_" -> "o_"
    [] c = "S_" -> "s_" [] c = "Z_" -> "z_" [] c = "Z__" -> "z__"
    [] OTHER -> c

replacements(c) ==
  CASE c = "a_" -> "a" [] c = "c_" -> "c" [] c = "e_" -> "e"
    [] c = "l_" -> "l" [] c = "n_" -> "n" [] c = "o_" -> "o"
    [] c = "s_" -> "s" [] c = "z_" -> "z" [] c = "z__" -> "z"
    [] OTHER -> c

normalize_name(name) ==
  IF FalsyName(name) THEN <<>>
  ELSE [i \in 1..Len(name) |-> replacements(LowerOf(name[i]))] \o <<>>

(***************************************************************************)
(* Levenshtein.distance, by rows of the edit-distance table                *)
(***************************************************************************)
RECURSIVE LevRow(_, _, _, _)
LevRow(prev, ch, b, cur) ==
  IF Len(cur) = Len(b) + 1 THEN cur
  ELSE LET j == Len(cur)
           cost == IF b[j] = ch THEN 0 ELSE 1
       IN The({ LevRow(prev, ch, b, next) :
                  next \in {Append(cur, Min2(Min2(prev[j + 1] + 1, cur[j] + 1),
                                             prev[j] + cost))} })

RECURSIVE LevRows(_, _, _, _)
LevRows(a, b, i, prev) ==
  IF i > Len(a) THEN prev[Len(b) + 1]
  ELSE The({ LevRows(a, b, i + 1, row) : row \in {LevRow(prev, a[i], b, <<i>>)} })

distance(a, b) == LevRows(a, b, 1, [j \in 1..(Len(b) + 1) |-> j - 1])

(***************************************************************************)
(* SimilarityScorer: TreeBuilder._name_similarity                          *)
(***************************************************************************)
diminutives ==
  ( <<"a","d","a","m">> :> << <<"a","d","a","s_">>, <<"a","d","e","k">> >> ) @@
  ( <<"j","a","n">> :> << <<"j","a","n","e","k">>, <<"j","a","s_">>,
                          <<"j","a","s","i","e","k">> >> ) @@
  ( <<"j","o_","z","e","f">> :> << <<"j","o_","z","e","k">>, <<"j","o_","z","i","o">> >> ) @@
  ( <<"m","a","r","i","a","n","n","a">> :>
       << <<"m","a","r","y","s","i","a">>, <<"m","a","r","y","n","a">>,
          <<"m","a","n","i","a">> >> ) @@
  ( <<"k","a","t","a","r","z","y","n","a">> :>
       << <<"k","a","s","i","a">>, <<"k","a","s","i","e","n_","k","a">>,
          <<"k","a","s_","k","a">> >> ) @@
  ( <<"a","n","n","a">> :> << <<"a","n","i","a">>, <<"a","n","k","a">>,
                              <<"a","n","u","s","i","a">> >> ) @@
  ( <<"m","a","g","d","a","l","e","n","a">> :>
       << <<"m","a","g","d","a">>, <<"m","a","d","z","i","a">> >> ) @@
  ( <<"s","t","a","n","i","s","l_","a","w">> :>
       << <<"s","t","a","s_">>, <<"s","t","a","s","z","e","k">> >> ) @@
  ( <<"w","a","c","l_","a","w">> :> << <<"w","a","c","e","k">> >> ) @@
  ( <<"z","o","f","i","a">> :> << <<"z","o","s","i","a">>, <<"z","o","s_","k","a">> >> )

InList(x, list) == \E i \in 1..Len(list) : list[i] = x

IsDiminutiveOf(canon, dim) ==
  canon \in DOMAIN diminutives /\ InList(dim, diminutives[canon])

\* mutant of name_similarity: the diminutive table is consulted in one
\* direction only
name_similarity_oneway(name1, name2) ==
  IF FalsyName(name1) \/ FalsyName(name2) THEN <<0, 1>>
  ELSE The({ IF n1 = n2 THEN <<1, 1>>
              ELSE IF IsDiminutiveOf(n1, n2) THEN <<9, 10>>
              ELSE IF Max2(Len(n1), Len(n2)) = 0 THEN <<0, 1>>
              ELSE <<Max2(Len(n1), Len(n2)) - distance(n1, n2), Max2(Len(n1), Len(n2))>> :
              n1 \in {normalize_name(name1)}, n2 \in {normalize_name(name2)} })

name_similarity(name1, name2) ==
  IF FalsyName(name1) \/ FalsyName(name2) THEN <<0, 1>>
  ELSE The({ IF n1 = n2 THEN <<1, 1>>
              ELSE IF IsDiminutiveOf(n1, n2) THEN <<9, 10>>
              ELSE IF IsDiminutiveOf(n2, n1) THEN <<9, 10>>
              ELSE IF Max2(Len(n1), Len(n2)) = 0 THEN <<0, 1>>
              ELSE <<Max2(Len(n1), Len(n2)) - distance(n1, n2), Max2(Len(n1), Len(n2))>> :
              n1 \in {normalize_name(name1)}, n2 \in {normalize_name(name2)} })

\* float comparisons on scores
SimEq(s, t) == s[1] * t[2] = t[1] * s[2]
SimGe(s, t) == s[1] * t[2] >= t[1] * s[2]
SimGt(s, t) == s[1] * t[2] > t[1] * s[2]
\* (s + t) / 2
SimAvg(s, t) == <<s[1] * t[2] + t[1] * s[2], 2 * s[2] * t[2]>>

(***************************************************************************)
(* datetime.date                                                           *)
(***************************************************************************)
IsLeap(y) == (y % 4 = 0) /\ ((y % 100 # 0) \/ (y % 400 = 0))

DaysInMonth(y, m) ==
  IF m = 2 THEN (IF IsLeap(y) THEN 29 ELSE 28)
  ELSE IF m \in {4, 6, 9, 11} THEN 30 ELSE 31

RECURSIVE DaysBeforeMonth(_, _)
DaysBeforeMonth(y, m) ==
  IF m <= 1 THEN 0 ELSE DaysBeforeMonth(y, m - 1) + DaysInMonth(y, m - 1)

\* datetime.date(year, month or 1, day or 1), NoDate where it raises
\* ValueError (caught by the callers)
MakeDate(year, month, day) ==
  LET m == IF FalsyInt(month) THEN 1 ELSE month
      d == IF FalsyInt(day) THEN 1 ELSE day
  IN IF year >= 1 /\ year <= 9999 /\ m >= 1 /\ m <= 12
        /\ d >= 1 /\ d <= DaysInMonth(year, m)
     THEN <<year, m, d>> ELSE NoDate

\* date.toordinal()
Ordinal(date) ==
  LET y == date[1] - 1
  IN y * 365 + (y \div 4) - (y \div 100) + (y \div 400)
     + DaysBeforeMonth(date[1], date[2]) + date[3]

\* (d1 - d2).days
DaysBetween(d1, d2) == Ordinal(d1) - Ordinal(d2)

YearOf(date) == date[1]

(***************************************************************************)
(* Storage: src/database.py                                                *)
(***************************************************************************)
\* confidences, in tenths
ConfFull == 10
ConfCensus == 8
ConfNotes == 7

EmptyDb ==
  [ persons |-> <<>>, next_person_id |-> 1,
    relationships |-> <<>>, marriages |-> <<>>,
    birth_events |-> <<>>, death_events |-> <<>>,
    marriage_events |-> <<>> ]

PersonIds(d) == {d.persons[i].id : i \in 1..Len(d.persons)}

PersonRow(d, id) ==
  d.persons[CHOOSE i \in 1..Len(d.persons) : d.persons[i].id = id]

\* Database.add_person: insert a row, the storage assigns the next id
add_person(d, first_name, last_name, birth_date, death_date, birth_place, death_place, confidence) ==
  [ d EXCEPT
      !.persons = Append(@, [ id |-> d.next_person_id,
                              first_name |-> first_name,
                              last_name |-> last_name,
                              birth_date |-> birth_date,
                              death_date |-> death_date,
                              birth_place |-> birth_place,
                              death_place |-> death_place,
                              confidence |-> confidence ]),
      !.next_person_id = @ + 1 ]

\* the id add_person has just assigned
LastPersonId(d) == d.next_person_id - 1

\* attribute assignments on a loaded person, then session.commit()
UpdatePerson(d, id, row) ==
  [ d EXCEPT !.persons =
      [i \in 1..Len(d.persons) |->
         IF d.persons[i].id = id THEN row ELSE d.persons[i]] \o <<>> ]

HasRelationship(d, parent_id, child_id) ==
  \E i \in 1..Len(d.relationships) :
     /\ d.relationships[i].parent_id = parent_id
     /\ d.relationships[i].child_id = child_id

\* mutant of add_relationship: no check for an existing pair
add_relationship_nocheck(d, parent_id, child_id, is_father, confidence) ==
  [ d EXCEPT !.relationships =
      Append(@, [ parent_id |-> parent_id, child_id |-> child_id,
                  is_father |-> is_father, confidence |-> confidence ]) ]

\* Database.add_relationship
add_relationship(d, parent_id, child_id, is_father, confidence) ==
  IF HasRelationship(d, parent_id, child_id) THEN d
  ELSE [ d EXCEPT !.relationships =
           Append(@, [ parent_id |-> parent_id, child_id |-> child_id,
                       is_father |-> is_father, confidence |-> confidence ]) ]

HasMarriage(d, a, b) ==
  \E i \in 1..Len(d.marriages) :
     \/ (d.marriages[i].person1_id = a /\ d.marriages[i].person2_id = b)
     \/ (d.marriages[i].person1_id = b /\ d.marriages[i].person2_id = a)

\* mutant of add_marriage: the existence check looks at one ordering only
add_marriage_oneorder(d, person1_id, person2_id, marriage_date, marriage_place, confidence, event_id) ==
  IF \E i \in 1..Len(d.marriages) :
        d.marriages[i].person1_id = person1_id
        /\ d.marriages[i].person2_id = person2_id
  THEN d
  ELSE [ d EXCEPT !.marriages =
           Append(@, [ person1_id |-> person1_id, person2_id |-> person2_id,
                       marriage_date |-> marriage_date,
                       marriage_place |-> marriage_place,
                       confidence |-> confidence, event_id |-> event_id ]) ]

\* Database.add_marriage
add_marriage(d, person1_id, person2_id, marriage_date, marriage_place, confidence, event_id) ==
  IF HasMarriage(d, person1_id, person2_id) THEN d
  ELSE [ d EXCEPT !.marriages =
           Append(@, [ person1_id |-> person1_id, person2_id |-> person2_id,
                       marriage_date |-> marriage_date,
                       marriage_place |-> marriage_place,
                       confidence |-> confidence, event_id |-> event_id ]) ]

\* Database.add_birth_event: the stored row holds the event's fields and the
\* back-reference person_id (None until linked)
add_birth_event(d, birth) ==
  [ d EXCEPT !.birth_events = Append(@, [event |-> birth, person_id |-> NoId]) ]

\* Database.add_death_event
add_death_event(d, death) ==
  [ d EXCEPT !.death_events = Append(@, [event |-> death, person_id |-> NoId]) ]

\* Database.add_marriage_event: the stored row holds the event's fields
add_marriage_event(d, marriage) ==
  [ d EXCEPT !.marriage_events = Append(@, [event |-> marriage]) ]

\* birth_event.person_id = person.id; session.commit()
LinkBirthEvent(d, event_id, person_id) ==
  [ d EXCEPT !.birth_events[event_id].person_id = person_id ]

\* death_event.person_id = person.id; session.commit()
LinkDeathEvent(d, event_id, person_id) ==
  [ d EXCEPT !.death_events[event_id].person_id = person_id ]

\* Person(**row): a person object built from a row alone; its relationship
\* lists are the empty lists of Person.__init__
NoPerson == [id |-> NoId, parents |-> <<>>, children |-> <<>>, spouses |-> <<>>]

PersonObject(d, id) ==
  IF id \in PersonIds(d)
  THEN [id |-> id, parents |-> <<>>, children |-> <<>>, spouses |-> <<>>]
  ELSE NoPerson

\* Database._get_parent_relationships: the rows whose child is the person,
\* each with its parent as a person object
get_parent_relationships(d, child_id) ==
  LET rows == SelectSeq(d.relationships, LAMBDA r : r.child_id = child_id)
  IN [i \in 1..Len(rows) |->
        [ parent_id |-> rows[i].parent_id, child_id |-> rows[i].child_id,
          is_father |-> rows[i].is_father, confidence |-> rows[i].confidence,
          parent |-> PersonObject(d, rows[i].parent_id) ]] \o <<>>

\* Database._get_child_relationships: the rows whose parent is the person,
\* each with its child as a person object
get_child_relationships(d, parent_id) ==
  LET rows == SelectSeq(d.relationships, LAMBDA r : r.parent_id = parent_id)
  IN [i \in 1..Len(rows) |->
        [ parent_id |-> rows[i].parent_id, child_id |-> rows[i].child_id,
          is_father |-> rows[i].is_father, confidence |-> rows[i].confidence,
          child |-> PersonObject(d, rows[i].child_id) ]] \o <<>>

\* Database._get_marriages: rows with the person as person1, then the rows
\* with the person as person2
get_marriages(d, person_id) ==
  SelectSeq(d.marriages, LAMBDA m : m.person1_id = person_id)
  \o SelectSeq(d.marriages, LAMBDA m : m.person2_id = person_id)

\* Database.get_person_by_id: the person with its relationship lists loaded,
\* NoPerson where no row has the id
get_person_by_id(d, id) ==
  IF id \in PersonIds(d)
  THEN [ id |-> id,
         parents |-> get_parent_relationships(d, id),
         children |-> get_child_relationships(d, id),
         spouses |-> get_marriages(d, id) ]
  ELSE NoPerson

(***************************************************************************)
(* PersonResolver: candidate selection and the per-kind gates              *)
(***************************************************************************)
Threshold == <<4, 5>>   \* threshold=0.8

\* "for match in similar_persons": the first of the accepted positions, 0
\* when none is accepted
FirstIndex(accepted) ==
  IF accepted = {} THEN 0
  ELSE CHOOSE i \in accepted : \A j \in accepted : i <= j

\* list.sort(key=similarity, reverse=True) is stable: element i goes behind
\* every element of a greater score and every earlier element of its own score
RankBySimilarity(matches, i) ==
  1 + Cardinality({j \in 1..Len(matches) :
                     \/ SimGt(matches[j].similarity, matches[i].similarity)
                     \/ j < i /\ SimEq(matches[j].similarity, matches[i].similarity)})

\* mutant of SortBySimilarity: the matches stay in the order of the scan
SortBySimilarity_unsorted(matches) == matches

SortBySimilarity(matches) ==
  [k \in 1..Len(matches) |->
     matches[CHOOSE i \in 1..Len(matches) : RankBySimilarity(matches, i) = k]] \o <<>>

\* TreeBuilder.find_matches_by_name
find_matches_by_name(d, first_name, last_name, threshold) ==
  The({ SortBySimilarity(matches) :
        matches \in { SelectSeq(
          [i \in 1..Len(d.persons) |->
             [ person |-> d.persons[i].id,
               similarity |-> SimAvg(name_similarity(first_name, d.persons[i].first_name),
                                     name_similarity(last_name, d.persons[i].last_name)) ]],
          LAMBDA m : SimGe(m.similarity, threshold)) } })

\* the result of a resolver: the storage after it and the person it returns
Resolved(d, person) == [db |-> d, person |-> person]

\* mutant of BirthGate: the date window is 60 days
BirthGate_wide(p, birth_date, location) ==
  IF p.birth_date # NoDate /\ birth_date # NoDate
  THEN (IF Abs(DaysBetween(p.birth_date, birth_date)) <= 60 THEN 1 ELSE 0)
  ELSE IF p.birth_date = NoDate /\ p.birth_place = location THEN 2
  ELSE 0

\* mutant of BirthGate: only the very day is accepted
BirthGate_sameday(p, birth_date, location) ==
  IF p.birth_date # NoDate /\ birth_date # NoDate
  THEN (IF p.birth_date = birth_date THEN 1 ELSE 0)
  ELSE IF p.birth_date = NoDate /\ p.birth_place = location THEN 2
  ELSE 0

\* the test of one candidate in _create_or_update_person_from_birth: 1 when
\* accepted by the date window, 2 when accepted by the place, 0 when passed over
BirthGate(p, birth_date, location) ==
  IF p.birth_date # NoDate /\ birth_date # NoDate
  THEN (IF Abs(DaysBetween(p.birth_date, birth_date)) <= 30 THEN 1 ELSE 0)
  ELSE IF p.birth_date = NoDate /\ p.birth_place = location THEN 2
  ELSE 0

\* TreeBuilder._create_or_update_person_from_birth, for the event row
\* event_id just stored (its person_id is None)
create_or_update_person_from_birth(d, ev, event_id) ==
  LET birth_date == IF FalsyInt(ev.year) THEN NoDate
                    ELSE MakeDate(ev.year, ev.month, ev.day)
  IN The({ The({
       IF hit # 0
       THEN LET p == PersonRow(d, similar[hit].person)
                row == IF BirthGate(p, birth_date, ev.location) = 1
                       THEN (IF FalsyStr(p.birth_place) /\ ~FalsyStr(ev.location)
                             THEN [p EXCEPT !.birth_place = ev.location] ELSE p)
                       ELSE [p EXCEPT !.birth_date = birth_date]
            IN Resolved(LinkBirthEvent(UpdatePerson(d, p.id, row), event_id, p.id), p.id)
       ELSE LET d1 == add_person(d, ev.first_name, ev.last_name, birth_date, NoDate,
                                 ev.location, NoPlace, ConfFull)
            IN Resolved(LinkBirthEvent(d1, event_id, LastPersonId(d1)), LastPersonId(d1)) :
       hit \in {FirstIndex({i \in 1..Len(similar) :
                  BirthGate(PersonRow(d, similar[i].person), birth_date, ev.location) # 0})} }) :
     similar \in {find_matches_by_name(d, ev.first_name, ev.last_name, Threshold)} })

\* the test of one candidate in _create_or_update_person_from_marriage: 1
\* accepted by the birth year, 2 accepted and given a birth date, 3 accepted
\* by the place, 0 passed over
MarriageGate(p, birth_year, location) ==
  IF p.birth_date # NoDate /\ ~FalsyInt(birth_year)
  THEN (IF Abs(YearOf(p.birth_date) - birth_year) <= 5 THEN 1 ELSE 0)
  ELSE IF p.birth_date = NoDate /\ ~FalsyInt(birth_year) THEN 2
  ELSE IF p.birth_place = location THEN 3
  ELSE 0

\* TreeBuilder._create_or_update_person_from_marriage
create_or_update_person_from_marriage(d, ev, is_groom) ==
  LET first_name == IF is_groom THEN ev.groom_first_name ELSE ev.bride_first_name
      last_name == IF is_groom THEN ev.groom_last_name ELSE ev.bride_last_name
      age == IF is_groom THEN ev.groom_age ELSE ev.bride_age
      location == IF is_groom THEN ev.groom_location ELSE ev.bride_location
      birth_year == IF ~FalsyInt(age) /\ ~FalsyInt(ev.year) THEN ev.year - age ELSE NoInt
      approx == IF FalsyInt(birth_year) THEN NoDate ELSE MakeDate(birth_year, 1, 1)
  IN The({ The({
       IF hit # 0
       THEN LET p == PersonRow(d, similar[hit].person)
            IN IF MarriageGate(p, birth_year, location) = 2 /\ approx # NoDate
               THEN Resolved(UpdatePerson(d, p.id, [p EXCEPT !.birth_date = approx]), p.id)
               ELSE Resolved(d, p.id)
       ELSE LET d1 == add_person(d, first_name, last_name, approx, NoDate,
                                 location, NoPlace, ConfFull)
            IN Resolved(d1, LastPersonId(d1)) :
       hit \in {FirstIndex({i \in 1..Len(similar) :
                  MarriageGate(PersonRow(d, similar[i].person), birth_year, location) # 0})} }) :
     similar \in {find_matches_by_name(d, first_name, last_name, Threshold)} })

\* the test of one candidate in _create_or_update_person_from_death: 1
\* accepted by the birth year, 2 accepted as not yet dead, 0 passed over
DeathGate(p, birth_year) ==
  IF p.birth_date # NoDate /\ ~FalsyInt(birth_year)
  THEN (IF Abs(YearOf(p.birth_date) - birth_year) <= 5 THEN 1 ELSE 0)
  ELSE IF p.death_date = NoDate THEN 2
  ELSE 0

\* TreeBuilder._create_or_update_person_from_death, for the event row
\* event_id just stored (its person_id is None)
create_or_update_person_from_death(d, ev, event_id) ==
  LET birth_year == IF ~FalsyInt(ev.age) /\ ~FalsyInt(ev.year) THEN ev.year - ev.age
                    ELSE NoInt
      death_date == IF FalsyInt(ev.year) THEN NoDate
                    ELSE MakeDate(ev.year, ev.month, ev.day)
      approx == IF FalsyInt(birth_year) THEN NoDate ELSE MakeDate(birth_year, 1, 1)
  IN The({ The({
       IF hit # 0
       THEN LET p == PersonRow(d, similar[hit].person)
                dead == [p EXCEPT !.death_date = death_date, !.death_place = ev.location]
                row == IF DeathGate(p, birth_year) = 2 /\ p.birth_date = NoDate
                          /\ approx # NoDate
                       THEN [dead EXCEPT !.birth_date = approx] ELSE dead
            IN Resolved(LinkDeathEvent(UpdatePerson(d, p.id, row), event_id, p.id), p.id)
       ELSE LET d1 == add_person(d, ev.first_name, ev.last_name, approx, death_date,
                                 NoPlace, ev.location, ConfFull)
            IN Resolved(LinkDeathEvent(d1, event_id, LastPersonId(d1)), LastPersonId(d1)) :
       hit \in {FirstIndex({i \in 1..Len(similar) :
                  DeathGate(PersonRow(d, similar[i].person), birth_year) # 0})} }) :
     similar \in {find_matches_by_name(d, ev.first_name, ev.last_name, Threshold)} })

MALE == "M"
FEMALE == "F"
UNKNOWN == "U"

\* mutant of find_or_create_parent: the lookup goes on without a last name
find_or_create_parent_anyname(d, first_name, last_name, child_last_name, gender, location) ==
  LET last == IF gender = MALE /\ FalsyName(last_name) /\ ~FalsyName(child_last_name)
              THEN child_last_name ELSE last_name
      d1 == add_person(d, first_name, last, NoDate, NoDate, location, NoPlace, ConfFull)
  IN Resolved(d1, LastPersonId(d1))

\* TreeBuilder._find_or_create_parent; person is NoId where it returns None
find_or_create_parent(d, first_name, last_name, child_last_name, gender, location) ==
  LET last == IF gender = MALE /\ FalsyName(last_name) /\ ~FalsyName(child_last_name)
              THEN child_last_name ELSE last_name
  IN IF FalsyName(last) THEN Resolved(d, NoId)
     ELSE The({ The({
            IF hit # 0 THEN Resolved(d, similar[hit].person)
            ELSE LET d1 == add_person(d, first_name, last, NoDate, NoDate,
                                      location, NoPlace, ConfFull)
                 IN Resolved(d1, LastPersonId(d1)) :
            hit \in {FirstIndex({i \in 1..Len(similar) :
                       \/ PersonRow(d, similar[i].person).birth_place = location
                       \/ PersonRow(d, similar[i].person).death_place = location})} }) :
          similar \in {find_matches_by_name(d, first_name, last, Threshold)} })

(***************************************************************************)
(* NotesParser: the regular expressions of TreeBuilder._process_death_notes *)
(* on a text given as a sequence of characters                             *)
(***************************************************************************)
\* the characters outside [A-Za-z...] that the texts use
NonLetters == {" ", ",", ":", "."}

\* the characters outside [A-Za-z..., ]
NonListChars == {":", "."}

MatchAt(s, i, kw) ==
  i >= 1 /\ i + Len(kw) - 1 <= Len(s) /\ SubSeq(s, i, i + Len(kw) - 1) = kw

\* "kw in s" on strings
Contains(s, kw) == \E i \in 1..Len(s) : MatchAt(s, i, kw)

\* the last index of the longest run from i on of characters not in stops
\* (i - 1 when the run is empty)
RunEnd(s, i, stops) ==
  CHOOSE j \in (i - 1)..Len(s) :
    /\ \A k \in i..j : s[k] \notin stops
    /\ j = Len(s) \/ s[j + 1] \in stops

\* re.search of "(?:kw1|kw2|...) (" followed by one character outside stops:
\* the leftmost position where a keyword, a space and such a character
\* follow each other; at is 0 when there is none, from is the index of the
\* character after the space
SearchKeyword(s, kws, stops) ==
  LET hits == { <<i, kw>> \in (1..Len(s)) \X kws :
                  /\ MatchAt(s, i, kw \o <<" ">>)
                  /\ i + Len(kw) + 1 <= Len(s)
                  /\ s[i + Len(kw) + 1] \notin stops }
  IN IF hits = {} THEN [at |-> 0, from |-> 0]
     ELSE The({ [at |-> h[1], from |-> h[1] + Len(h[2]) + 1] :
                h \in { CHOOSE h \in hits : \A g \in hits : h[1] <= g[1] } })

\* str.strip() for spaces
RECURSIVE Strip(_)
Strip(s) ==
  IF s = <<>> THEN s
  ELSE IF Head(s) = " " THEN Strip(Tail(s))
  ELSE IF s[Len(s)] = " " THEN Strip(SubSeq(s, 1, Len(s) - 1))
  ELSE s

\* str.split(',')
RECURSIVE Split(_)
Split(s) ==
  IF \A k \in 1..Len(s) : s[k] # ","
  THEN <<s>>
  ELSE The({ <<SubSeq(s, 1, c - 1)>> \o Split(SubSeq(s, c + 1, Len(s))) :
             c \in { CHOOSE c \in 1..Len(s) :
                       s[c] = "," /\ \A k \in 1..(c - 1) : s[k] # "," } })

zona == <<"z_", "o", "n", "a">>
maz == <<"m", "a_", "z_">>
syn == <<"s", "y", "n">>
corka == <<"c", "o_", "r", "k", "a">>
dzieci == <<"d", "z", "i", "e", "c", "i">>
synowie == <<"s", "y", "n", "o", "w", "i", "e">>
corki == <<"c", "o_", "r", "k", "i">>

\* spouse_match: the captured name and "'maz' in spouse_match.group(0)";
\* name is NoName when the search finds nothing
spouse_match(notes) ==
  The({ IF m.at = 0 THEN [name |-> NoName, is_male |-> FALSE]
        ELSE The({ [ name |-> SubSeq(notes, m.from, e),
                     is_male |-> Contains(SubSeq(notes, m.at, e), maz) ] :
                   e \in {RunEnd(notes, m.from, NonLetters)} }) :
        m \in {SearchKeyword(notes, {zona, maz}, NonLetters)} })

\* parents_match: group(1), and group(2) or None
parents_match(notes) ==
  The({ IF m.at = 0 THEN [father_name |-> NoName, mother_name |-> NoName]
        ELSE The({ [ father_name |-> SubSeq(notes, m.from, e),
                     mother_name |->
                       IF MatchAt(notes, e + 1, <<" ", "i", " ">>)
                          /\ e + 4 <= Len(notes) /\ notes[e + 4] \notin NonLetters
                       THEN SubSeq(notes, e + 4, RunEnd(notes, e + 4, NonLetters))
                       ELSE NoName ] :
                   e \in {RunEnd(notes, m.from, NonLetters)} }) :
        m \in {SearchKeyword(notes, {syn, corka}, NonLetters)} })

\* children_match: the stripped, non-empty elements of group(1).split(',')
children_match(notes) ==
  The({ IF m.at = 0 THEN <<>>
        ELSE SelectSeq(
               The({ [k \in 1..Len(parts) |-> Strip(parts[k])] \o <<>> :
                     parts \in {Split(SubSeq(notes, m.from,
                                             RunEnd(notes, m.from, NonListChars)))} }),
               LAMBDA child_name : child_name # <<>>) :
        m \in {SearchKeyword(notes, {dzieci \o <<":">>, synowie \o <<":">>,
                                     corki \o <<":">>}, NonListChars)} })

\* "if spouse_match:" of _process_death_notes, m the result of the search
NotesSpouse(d, person, m, location) ==
  IF m.name = NoName THEN d
  ELSE The({ IF r.person = NoId THEN r.db
             ELSE add_marriage(r.db, person.id, r.person, NoDate, location,
                               ConfNotes, NoId) :
             r \in { IF m.is_male
                     THEN find_or_create_parent(d, m.name, NoName, NoName, FEMALE, location)
                     ELSE find_or_create_parent(d, m.name, person.last_name, NoName,
                                                MALE, location) } })

\* "if parents_match:" of _process_death_notes, m the result of the search
NotesParents(d, person, m, location) ==
  IF m.father_name = NoName THEN d
  ELSE The({ The({
         IF FalsyName(m.mother_name) THEN d1
         ELSE The({ IF mother.person = NoId THEN mother.db
                    ELSE add_relationship(mother.db, mother.person, person.id,
                                          FALSE, ConfNotes) :
                    mother \in {find_or_create_parent(d1, m.mother_name, NoName, NoName,
                                                      FEMALE, location)} }) :
         d1 \in { IF father.person = NoId THEN father.db
                  ELSE add_relationship(father.db, father.person, person.id,
                                        TRUE, ConfNotes) } }) :
         father \in {find_or_create_parent(d, m.father_name, person.last_name, NoName,
                                           MALE, location)} })

\* "for child_name in children_list" of _process_death_notes, from the i-th
\* name on; has_syn is "'syn' in notes"
RECURSIVE NotesChildren(_, _, _, _, _, _)
NotesChildren(d, person, children, has_syn, location, i) ==
  IF i > Len(children) THEN d
  ELSE The({ The({ NotesChildren(d1, person, children, has_syn, location, i + 1) :
         d1 \in { IF child.person = NoId THEN child.db
                  ELSE add_relationship(child.db, person.id, child.person,
                                        has_syn, ConfNotes) } }) :
         child \in {find_or_create_parent(d, children[i],
                                          IF has_syn THEN person.last_name ELSE NoName,
                                          NoName, UNKNOWN, location)} })

\* TreeBuilder._process_death_notes
process_death_notes(d, person, notes, location) ==
  The({ The({ The({ The({ The({
    NotesChildren(d2, person, children, Contains(notes, syn), location, 1) :
    children \in {children_match(notes)} }) :
    d2 \in {NotesParents(d1, person, parents, location)} }) :
    parents \in {parents_match(notes)} }) :
    d1 \in {NotesSpouse(d, person, spouse, location)} }) :
    spouse \in {spouse_match(notes)} })

(***************************************************************************)
(* Importer: TreeBuilder.import_scraped_data                               *)
(***************************************************************************)
ZeroStats ==
  [ births_imported |-> 0, deaths_imported |-> 0, marriages_imported |-> 0,
    census_imported |-> 0, persons_created |-> 0, relationships_created |-> 0,
    marriages_created |-> 0 ]

\* the running state of one import call
Importing(d, stats) == [db |-> d, stats |-> stats]

\* one parent field of an event: look the parent up and link it to the child
LinkParent(st, first_name, last_name, child_last_name, gender, location, child_id) ==
  IF FalsyName(first_name) THEN st
  ELSE The({ IF r.person = NoId THEN Importing(r.db, st.stats)
             ELSE Importing(add_relationship(r.db, r.person, child_id, gender = MALE, ConfFull),
                            [st.stats EXCEPT !.relationships_created = @ + 1]) :
             r \in {find_or_create_parent(st.db, first_name, last_name, child_last_name,
                                          gender, location)} })

\* the body of "for birth in data.get('births', [])"
ImportBirth(st, birth) ==
  The({ The({ The({ The({
    LinkParent(s2, birth.mother_first_name, birth.mother_maiden_name, NoName,
               FEMALE, birth.location, r.person) :
    s2 \in {LinkParent(s1, birth.father_first_name, NoName, birth.last_name,
                       MALE, birth.location, r.person)} }) :
    s1 \in {Importing(r.db, [st.stats EXCEPT !.births_imported = @ + 1,
                                             !.persons_created = @ + 1])} }) :
    r \in {create_or_update_person_from_birth(d1, birth, Len(d1.birth_events))} }) :
    d1 \in {add_birth_event(st.db, birth)} })

\* the body of "for marriage in data.get('marriages', [])"
ImportMarriage(st, marriage) ==
  LET marriage_date == IF FalsyInt(marriage.year) THEN NoDate
                       ELSE MakeDate(marriage.year, marriage.month, marriage.day)
  IN The({ The({ The({ The({ The({ The({ The({
    LinkParent(s4, marriage.bride_mother_first_name,
               marriage.bride_mother_maiden_name, NoName, FEMALE,
               marriage.bride_location, b.person) :
    s4 \in {LinkParent(s3, marriage.bride_father_first_name, NoName,
                       marriage.bride_last_name, MALE, marriage.bride_location,
                       b.person)} }) :
    s3 \in {LinkParent(s2, marriage.groom_mother_first_name,
                       marriage.groom_mother_maiden_name, NoName, FEMALE,
                       marriage.groom_location, g.person)} }) :
    s2 \in {LinkParent(s1, marriage.groom_father_first_name, NoName,
                       marriage.groom_last_name, MALE, marriage.groom_location,
                       g.person)} }) :
    s1 \in {Importing(add_marriage(b.db, g.person, b.person, marriage_date,
                                   marriage.parish, ConfFull, Len(d1.marriage_events)),
                      [st.stats EXCEPT !.marriages_imported = @ + 1,
                                       !.marriages_created = @ + 1])} }) :
    b \in {create_or_update_person_from_marriage(g.db, marriage, FALSE)} }) :
    g \in {create_or_update_person_from_marriage(d1, marriage, TRUE)} }) :
    d1 \in {add_marriage_event(st.db, marriage)} })

\* the body of "for death in data.get('deaths', [])"
ImportDeath(st, death) ==
  The({ The({ The({
    Importing(d2, [st.stats EXCEPT !.deaths_imported = @ + 1,
                                   !.persons_created = @ + 1]) :
    d2 \in { IF FalsyName(death.about_deceased_and_family) THEN r.db
             ELSE process_death_notes(r.db, PersonRow(r.db, r.person),
                                      death.about_deceased_and_family,
                                      death.location) } }) :
    r \in {create_or_update_person_from_death(d1, death, Len(d1.death_events))} }) :
    d1 \in {add_death_event(st.db, death)} })

RECURSIVE ImportDeaths(_, _, _)
ImportDeaths(st, deaths, i) ==
  IF i > Len(deaths) THEN st
  ELSE The({ ImportDeaths(s, deaths, i + 1) : s \in {ImportDeath(st, deaths[i])} })

RECURSIVE ImportBirths(_, _, _)
ImportBirths(st, births, i) ==
  IF i > Len(births) THEN st
  ELSE The({ ImportBirths(s, births, i + 1) : s \in {ImportBirth(st, births[i])} })

RECURSIVE ImportMarriages(_, _, _)
ImportMarriages(st, marriages, i) ==
  IF i > Len(marriages) THEN st
  ELSE The({ ImportMarriages(s, marriages, i + 1) : s \in {ImportMarriage(st, marriages[i])} })

\* TreeBuilder.import_scraped_data: births, deaths, then marriages, and the
\* stats it returns
import_scraped_data(d, data) ==
  The({ The({ The({ ImportMarriages(s2, data.marriages, 1) :
    s2 \in {ImportDeaths(s1, data.deaths, 1)} }) :
    s1 \in {ImportBirths(s0, data.births, 1)} }) :
    s0 \in {Importing(d, ZeroStats)} })

\* The import loops when a storage insert of an event fails: add_birth_event,
\* add_death_event and add_marriage_event catch the storage exception and
\* return None, the loop counts the event, and the resolver called next with
\* None raises AttributeError on its first attribute access, which nothing
\* in import_scraped_data catches.  failing is the set of <<kind, index>> of
\* the events whose insert fails; raised tells that the call ended in the
\* exception, st is the import state it had reached.
RECURSIVE ImportBirthsOrRaise(_, _, _, _)
ImportBirthsOrRaise(st, births, failing, i) ==
  IF i > Len(births) THEN [st |-> st, raised |-> FALSE]
  ELSE IF <<"births", i>> \in failing
  THEN [ st |-> Importing(st.db, [st.stats EXCEPT !.births_imported = @ + 1]),
         raised |-> TRUE ]
  ELSE The({ ImportBirthsOrRaise(s, births, failing, i + 1) :
             s \in {ImportBirth(st, births[i])} })

RECURSIVE ImportDeathsOrRaise(_, _, _, _)
ImportDeathsOrRaise(st, deaths, failing, i) ==
  IF i > Len(deaths) THEN [st |-> st, raised |-> FALSE]
  ELSE IF <<"deaths", i>> \in failing
  THEN [ st |-> Importing(st.db, [st.stats EXCEPT !.deaths_imported = @ + 1]),
         raised |-> TRUE ]
  ELSE The({ ImportDeathsOrRaise(s, deaths, failing, i + 1) :
             s \in {ImportDeath(st, deaths[i])} })

RECURSIVE ImportMarriagesOrRaise(_, _, _, _)
ImportMarriagesOrRaise(st, marriages, failing, i) ==
  IF i > Len(marriages) THEN [st |-> st, raised |-> FALSE]
  ELSE IF <<"marriages", i>> \in failing
  THEN [ st |-> Importing(st.db, [st.stats EXCEPT !.marriages_imported = @ + 1]),
         raised |-> TRUE ]
  ELSE The({ ImportMarriagesOrRaise(s, marriages, failing, i + 1) :
             s \in {ImportMarriage(st, marriages[i])} })

\* TreeBuilder.import_scraped_data under the storage failures of failing
import_scraped_data_or_raise(d, data, failing) ==
  The({ IF b.raised THEN b
        ELSE The({ IF de.raised THEN de
                   ELSE ImportMarriagesOrRaise(de.st, data.marriages, failing, 1) :
                   de \in {ImportDeathsOrRaise(b.st, data.deaths, failing, 1)} }) :
        b \in {ImportBirthsOrRaise(Importing(d, ZeroStats), data.births, failing, 1)} })

(***************************************************************************)
(* PersonMerger: TreeBuilder.merge_persons                                 *)
(***************************************************************************)
\* mutant of Backfill: person2's values overwrite person1's
Backfill_overwrite(p1, p2) ==
  [ p1 EXCEPT
      !.birth_date = IF p2.birth_date # NoDate THEN p2.birth_date ELSE @,
      !.birth_place = IF ~FalsyStr(p2.birth_place) THEN p2.birth_place ELSE @,
      !.death_date = IF p2.death_date # NoDate THEN p2.death_date ELSE @,
      !.death_place = IF ~FalsyStr(p2.death_place) THEN p2.death_place ELSE @ ]

\* "if not person1.f and person2.f: person1.f = person2.f", for the four
\* birth/death date/place fields
Backfill(p1, p2) ==
  [ p1 EXCEPT
      !.birth_date = IF @ = NoDate /\ p2.birth_date # NoDate THEN p2.birth_date ELSE @,
      !.birth_place = IF FalsyStr(@) /\ ~FalsyStr(p2.birth_place) THEN p2.birth_place ELSE @,
      !.death_date = IF @ = NoDate /\ p2.death_date # NoDate THEN p2.death_date ELSE @,
      !.death_place = IF FalsyStr(@) /\ ~FalsyStr(p2.death_place) THEN p2.death_place ELSE @ ]

\* "for rel in person2.parents": copy each parent link of person2 to person1
RECURSIVE MergeParents(_, _, _, _)
MergeParents(d, rels, i, keep) ==
  IF i > Len(rels) THEN d
  ELSE The({ MergeParents(d1, rels, i + 1, keep) :
             d1 \in {IF HasRelationship(d, rels[i].parent_id, keep) THEN d
                     ELSE add_relationship(d, rels[i].parent_id, keep, rels[i].is_father,
                                           rels[i].confidence)} })

\* mutant of MergeChildren: the child links of person2 are not copied
MergeChildren_skip(d, rels, i, keep) == d

\* "for rel in person2.children": copy each child link of person2 to person1
RECURSIVE MergeChildren(_, _, _, _)
MergeChildren(d, rels, i, keep) ==
  IF i > Len(rels) THEN d
  ELSE The({ MergeChildren(d1, rels, i + 1, keep) :
             d1 \in {IF HasRelationship(d, keep, rels[i].child_id) THEN d
                     ELSE add_relationship(d, keep, rels[i].child_id, rels[i].is_father,
                                           rels[i].confidence)} })

\* "for marriage in person2.spouses": copy each marriage of person2 to person1
RECURSIVE MergeSpouses(_, _, _, _, _)
MergeSpouses(d, ms, i, keep, drop) ==
  IF i > Len(ms) THEN d
  ELSE LET other == IF ms[i].person1_id # drop THEN ms[i].person1_id
                    ELSE ms[i].person2_id
       IN The({ MergeSpouses(d1, ms, i + 1, keep, drop) :
                d1 \in {IF HasMarriage(d, keep, other) THEN d
                        ELSE add_marriage(d, keep, other, ms[i].marriage_date,
                                          ms[i].marriage_place, ms[i].confidence,
                                          ms[i].event_id)} })

\* "for event in person2.events_birth / events_death: event.person_id =
\* person1.id"
RepointEvents(events, keep, drop) ==
  [i \in 1..Len(events) |->
     IF events[i].person_id = drop THEN [events[i] EXCEPT !.person_id = keep]
     ELSE events[i]] \o <<>>

\* db.session.delete(person2): the person's row goes, and with it the
\* relationship and marriage rows that reference the person
session_delete(d, id) ==
  [ d EXCEPT
      !.persons = SelectSeq(@, LAMBDA p : p.id # id),
      !.relationships = SelectSeq(@, LAMBDA r : r.parent_id # id /\ r.child_id # id),
      !.marriages = SelectSeq(@, LAMBDA m : m.person1_id # id /\ m.person2_id # id) ]

\* the part of merge_persons after both persons were found
MergeFound(d, person1, person2) ==
  LET keep == person1.id
      drop == person2.id
  IN The({ The({ The({ The({ The({ The({
       session_delete(d5, drop) :
       d5 \in {[ d4 EXCEPT !.birth_events = RepointEvents(@, keep, drop),
                           !.death_events = RepointEvents(@, keep, drop) ]} }) :
       d4 \in {MergeSpouses(d3, person2.spouses, 1, keep, drop)} }) :
       d3 \in {MergeChildren(d2, person2.children, 1, keep)} }) :
       d2 \in {MergeParents(d1, person2.parents, 1, keep)} }) :
       d1 \in {UpdatePerson(d, keep, row)} }) :
       row \in {Backfill(PersonRow(d, keep), PersonRow(d, drop))} })

\* mutant of merge_persons: only person1 is looked up
merge_persons_unchecked(d, person1_id, person2_id) ==
  IF get_person_by_id(d, person1_id).id = NoId
  THEN Resolved(d, NoId)
  ELSE Resolved(session_delete(d, person2_id), person1_id)

\* TreeBuilder.merge_persons; person is NoId where it returns None
merge_persons(d, person1_id, person2_id) ==
  The({ IF person1.id = NoId \/ person2.id = NoId
        THEN Resolved(d, NoId)
        ELSE Resolved(MergeFound(d, person1, person2), person1.id) :
        person1 \in {get_person_by_id(d, person1_id)},
        person2 \in {get_person_by_id(d, person2_id)} })

\* merge_persons when one storage step fails.  Every add_relationship and
\* add_marriage call is an insert of its own; an insert that fails is caught
\* inside the Database method, which returns None, and the merge goes on.
\* The attribute assignments on person1 and on the events reach the storage
\* with the final session.delete / session.commit; when that step fails the
\* call ends in its exception, and the inserts made before it stay.  fail is
\* the step that fails: "parents", "children" or "spouses" for the inserts of
\* one loop, "delete" for the final step, "none" for no failure.
MergeFoundFailing(d, person1, person2, fail) ==
  LET keep == person1.id
      drop == person2.id
  IN The({ The({ The({
       IF fail = "delete" THEN Resolved(d4, NoId)
       ELSE The({ The({ The({
              Resolved(session_delete(d6, drop), keep) :
              d6 \in {[ d5 EXCEPT !.birth_events = RepointEvents(@, keep, drop),
                                  !.death_events = RepointEvents(@, keep, drop) ]} }) :
              d5 \in {UpdatePerson(d4, keep, row)} }) :
              row \in {Backfill(PersonRow(d, keep), PersonRow(d, drop))} }) :
       d4 \in { IF fail = "spouses" THEN d3
                ELSE MergeSpouses(d3, person2.spouses, 1, keep, drop) } }) :
       d3 \in { IF fail = "children" THEN d2
                ELSE MergeChildren(d2, person2.children, 1, keep) } }) :
       d2 \in { IF fail = "parents" THEN d
                ELSE MergeParents(d, person2.parents, 1, keep) } })

\* TreeBuilder.merge_persons under the storage failure fail
merge_persons_failing(d, person1_id, person2_id, fail) ==
  The({ IF person1.id = NoId \/ person2.id = NoId
        THEN Resolved(d, NoId)
        ELSE MergeFoundFailing(d, person1, person2, fail) :
        person1 \in {get_person_by_id(d, person1_id)},
        person2 \in {get_person_by_id(d, person2_id)} })

(***************************************************************************)
(* GraphAssembler: TreeBuilder.build_trees                                 *)
(***************************************************************************)
\* the DiGraph G: an edge u -> v for a relationship row (u parent of v) and
\* for a marriage row in both directions
HasEdge(d, u, v) == HasRelationship(d, u, v) \/ HasMarriage(d, u, v)

\* the edge's "relationship" attribute: the marriages are added after the
\* relationships, and add_edge on an existing edge updates its attributes
EdgeLabel(d, u, v) == IF HasMarriage(d, u, v) THEN "spouse" ELSE "parent"

\* mutant of Neighbours: the graph is walked along the edge direction only
Neighbours_directed(d, u) == {v \in PersonIds(d) : HasEdge(d, u, v)}

\* the neighbours of u in either direction (weak connectivity)
Neighbours(d, u) == {v \in PersonIds(d) : HasEdge(d, u, v) \/ HasEdge(d, v, u)}

\* networkx _plain_bfs: the nodes reached from the frontier
RECURSIVE PlainBfs(_, _, _)
PlainBfs(d, seen, frontier) ==
  IF frontier = {} THEN seen
  ELSE The({ The({ PlainBfs(d, seen1, next) : seen1 \in {seen \cup next} }) :
             next \in {UNION {Neighbours(d, u) : u \in frontier} \ seen} })

\* networkx weakly_connected_components: one component per node not seen yet,
\* in node order
RECURSIVE Components(_, _, _, _)
Components(d, i, seen, acc) ==
  IF i > Len(d.persons) THEN acc
  ELSE LET v == d.persons[i].id
       IN IF v \in seen THEN Components(d, i + 1, seen, acc)
          ELSE The({ The({ Components(d, i + 1, seen1, acc1) :
                            seen1 \in {seen \cup c}, acc1 \in {Append(acc, c)} }) :
                     c \in {PlainBfs(d, {v}, {v})} })

\* "Determine gender if possible": the first row of person.parents decides
GuessGender(person) ==
  IF Len(person.parents) = 0 THEN UNKNOWN
  ELSE IF person.parents[1].is_father THEN MALE ELSE FEMALE

\* TreeBuilder.build_trees: one tree per component; the nodes carry the id
\* and the gender (the name, date and place attributes are copies of the
\* person's row)
build_trees(d) ==
  LET ids(c) == SelectSeq([i \in 1..Len(d.persons) |-> d.persons[i].id],
                          LAMBDA id : id \in c)
  IN The({
       [i \in 1..Len(comps) |->
          [ id |-> i - 1,
            nodes |-> The({ [k \in 1..Len(members) |->
                               [ id |-> members[k],
                                 gender |-> GuessGender(get_person_by_id(d, members[k])) ]]
                            \o <<>> :
                            members \in {ids(comps[i])} }),
            edges |-> { [source |-> u, target |-> v, relationship |-> EdgeLabel(d, u, v)] :
                        <<u, v>> \in {e \in comps[i] \X comps[i] : HasEdge(d, e[1], e[2])} } ]]
       \o <<>> :
       comps \in {Components(d, 1, {}, <<>>)} })

(***************************************************************************)
(* TreeTraversal: TreeBuilder.get_ancestors / _add_ancestors               *)
(***************************************************************************)
InTree(tree, id) == \E k \in 1..Len(tree.nodes) : tree.nodes[k].id = id

\* mutant of AddNode: the node is appended without the test
AddNode_nocheck(tree, id, gender) ==
  [tree EXCEPT !.nodes = Append(@, [id |-> id, gender |-> gender])]

AddNode(tree, id, gender) ==
  IF InTree(tree, id) THEN tree
  ELSE [tree EXCEPT !.nodes = Append(@, [id |-> id, gender |-> gender])]

AddEdge(tree, source, target, relationship) ==
  [tree EXCEPT !.edges = Append(@, [ source |-> source, target |-> target,
                                     relationship |-> relationship ])]

\* "for marriage in parent.spouses" of _add_ancestors
RECURSIVE AddParentSpouses(_, _, _, _, _, _)
AddParentSpouses(d, person, parent, rel, tree, k) ==
  IF k > Len(parent.spouses) THEN tree
  ELSE LET marriage == parent.spouses[k]
           other_id == IF marriage.person1_id # parent.id THEN marriage.person1_id
                       ELSE marriage.person2_id
           is_other_parent == \E j \in 1..Len(person.parents) :
                                 person.parents[j].parent.id = other_id
           t1 == AddNode(tree, other_id, IF rel.is_father THEN FEMALE ELSE MALE)
           t2 == AddEdge(AddEdge(t1, parent.id, other_id, "spouse"),
                         other_id, parent.id, "spouse")
       IN The({ AddParentSpouses(d, person, parent, rel, t3, k + 1) :
                t3 \in {IF is_other_parent THEN tree ELSE t2} })

\* mutant of add_ancestors: the parent's node is added, the edge is not
add_ancestors_noedge(d, person, tree, max_generations, current_gen, i) ==
  IF current_gen >= max_generations \/ i > Len(person.parents) THEN tree
  ELSE AddNode(tree, person.parents[i].parent.id,
               IF person.parents[i].is_father THEN MALE ELSE FEMALE)

\* TreeBuilder._add_ancestors, from the i-th row of person.parents on
RECURSIVE add_ancestors(_, _, _, _, _, _)
add_ancestors(d, person, tree, max_generations, current_gen, i) ==
  IF current_gen >= max_generations \/ i > Len(person.parents) THEN tree
  ELSE LET rel == person.parents[i]
           parent == rel.parent
       IN The({ The({ The({ The({
            add_ancestors(d, person, t4, max_generations, current_gen, i + 1) :
            t4 \in {AddParentSpouses(d, person, parent, rel, t3, 1)} }) :
            t3 \in {add_ancestors(d, parent, t2, max_generations, current_gen + 1, 1)} }) :
            t2 \in {AddEdge(t1, parent.id, person.id, "parent")} }) :
            t1 \in {AddNode(tree, parent.id, IF rel.is_father THEN MALE ELSE FEMALE)} })

NoTree == [nodes |-> <<>>, edges |-> <<>>]

\* TreeBuilder.get_ancestors; NoTree where it returns None
get_ancestors(d, person_id, generations) ==
  The({ IF person.id = NoId THEN NoTree
        ELSE The({ add_ancestors(d, person, tree, generations, 0, 1) :
                   tree \in {[nodes |-> <<[id |-> person.id, gender |-> UNKNOWN]>>,
                              edges |-> <<>>]} }) :
        person \in {get_person_by_id(d, person_id)} })

(***************************************************************************)
(* The state: the stored tables, and the last call made with its result    *)
(***************************************************************************)
VARIABLES db, call

vars == <<db, call>>

\* bounds
MaxEvents == 3
MaxPersons == 3
MaxGraphEvents == 2
MaxLinks == 1

Jan == <<"J", "a", "n">>
Janek == <<"J", "a", "n", "e", "k">>
Adam == <<"A", "d", "a", "m">>
Piotr == <<"P", "i", "o", "t", "r">>
Maria == <<"M", "a", "r", "i", "a">>
Anna == <<"A", "n", "n", "a">>
Kowalski == <<"K", "o", "w", "a", "l", "s", "k", "i">>
Nowak == <<"N", "o", "w", "a", "k">>

\* one record of data['births'] as the scraper emits it
Birth(day, month, year, first_name, last_name, location, father_first_name) ==
  [ day |-> day, month |-> month, year |-> year, first_name |-> first_name,
    last_name |-> last_name, location |-> location,
    father_first_name |-> father_first_name, mother_first_name |-> NoName,
    mother_maiden_name |-> NoName ]

\* one record of data['deaths']
Death(year, first_name, last_name, age, location) ==
  [ day |-> NoInt, month |-> NoInt, year |-> year, first_name |-> first_name,
    last_name |-> last_name, age |-> age, location |-> location,
    about_deceased_and_family |-> NoName ]

\* one record of data['marriages']
Wedding(year, groom_first_name, groom_age, groom_location, groom_father_first_name, bride_first_name, bride_last_name, bride_location) ==
  [ day |-> NoInt, month |-> NoInt, year |-> year, parish |-> "Kowel",
    groom_first_name |-> groom_first_name, groom_last_name |-> Kowalski,
    groom_location |-> groom_location, groom_age |-> groom_age,
    groom_father_first_name |-> groom_father_first_name,
    groom_mother_first_name |-> NoName, groom_mother_maiden_name |-> NoName,
    bride_first_name |-> bride_first_name, bride_last_name |-> bride_last_name,
    bride_location |-> bride_location, bride_age |-> NoInt,
    bride_father_first_name |-> NoName, bride_mother_first_name |-> NoName,
    bride_mother_maiden_name |-> NoName ]

\* the births of one child name, 0, 10, 30, 31 and 40 days after 1 January
\* 1850, one with a date that does not exist, and one of another child
BirthInputs ==
  { Birth(NoInt, NoInt, 1850, Jan, Kowalski, NoPlace, Adam),
    Birth(11, 1, 1850, Jan, Kowalski, NoPlace, NoName),
    Birth(31, 1, 1850, Jan, Kowalski, "Kowel", Janek),
    Birth(1, 2, 1850, Jan, Kowalski, "Kowel", NoName),
    Birth(10, 2, 1850, Jan, Kowalski, NoPlace, Adam),
    Birth(30, 2, 1850, Jan, Kowalski, NoPlace, NoName),
    Birth(11, 1, 1850, Anna, Nowak, "Kowel", NoName) }

MarriageInputs ==
  { Wedding(1875, Janek, NoInt, "Luck", NoName, Maria, Nowak, "Luck"),
    Wedding(1880, Jan, 30, "Kowel", Jan, Anna, Nowak, "Kowel"),
    Wedding(NoInt, Jan, NoInt, NoPlace, NoName, Maria, Nowak, NoPlace) }

Batch(births, deaths, marriages) ==
  [births |-> births, deaths |-> deaths, marriages |-> marriages]

EventCount(d) == Len(d.birth_events) + Len(d.death_events) + Len(d.marriage_events)

Init ==
  /\ db = EmptyDb
  /\ call = [op |-> "none"]

\* tree_builder.import_scraped_data({'births': [birth]})
ImportBirthData ==
  \E birth \in BirthInputs :
    /\ EventCount(db) < MaxEvents
    /\ \E r \in {import_scraped_data(db, Batch(<<birth>>, <<>>, <<>>))} :
         /\ db' = r.db
         /\ call' = [op |-> "import", stats |-> r.stats]

\* tree_builder.import_scraped_data({'marriages': [marriage]})
ImportMarriageData ==
  \E marriage \in MarriageInputs :
    /\ EventCount(db) < MaxEvents
    /\ \E r \in {import_scraped_data(db, Batch(<<>>, <<>>, <<marriage>>))} :
         /\ db' = r.db
         /\ call' = [op |-> "import", stats |-> r.stats]

Next == ImportBirthData \/ ImportMarriageData

Spec == Init /\ [][Next]_vars

(***************************************************************************)
(* A small population, built by imports, for the calls on stored persons   *)
(***************************************************************************)
GraphBirths ==
  { Birth(11, 1, 1850, Jan, Kowalski, "Kowel", Adam),
    Birth(NoInt, NoInt, 1852, Piotr, Kowalski, "Kowel", Adam),
    Birth(NoInt, NoInt, 1855, Maria, Nowak, "", NoName) }

GraphDeaths ==
  { Death(1900, Adam, Nowak, 50, "Luck"),
    Death(1910, Jan, Kowalski, 60, "") }

GraphMarriages ==
  { Wedding(1875, Jan, NoInt, NoPlace, NoName, Maria, Nowak, NoPlace) }

\* the import of one event, while the population stays small and before
\* any person has been merged away
Populate(data) ==
  /\ EventCount(db) < MaxGraphEvents
  /\ Len(db.persons) = db.next_person_id - 1
  /\ \E r \in {import_scraped_data(db, data)} :
       /\ Len(r.db.persons) <= MaxPersons
       /\ db' = r.db
       /\ call' = [op |-> "import", stats |-> r.stats]

PopulateBirth == \E birth \in GraphBirths : Populate(Batch(<<birth>>, <<>>, <<>>))

PopulateDeath == \E death \in GraphDeaths : Populate(Batch(<<>>, <<death>>, <<>>))

PopulateMarriage ==
  \E marriage \in GraphMarriages : Populate(Batch(<<>>, <<>>, <<marriage>>))

LinkCount(d) == Len(d.relationships) + Len(d.marriages)

\* db.add_relationship(parent_id, child_id, is_father, confidence) on two
\* stored persons
CallAddRelationship ==
  \E parent_id \in PersonIds(db), child_id \in PersonIds(db),
     flags \in {<<TRUE, ConfFull>>, <<FALSE, ConfNotes>>} :
    /\ parent_id # child_id
    /\ HasRelationship(db, parent_id, child_id) \/ LinkCount(db) < MaxLinks
    /\ db' = add_relationship(db, parent_id, child_id, flags[1], flags[2])
    /\ call' = [ op |-> "add_relationship", parent_id |-> parent_id,
                 child_id |-> child_id, is_father |-> flags[1],
                 confidence |-> flags[2] ]

\* db.add_marriage(person1_id, person2_id) on two stored persons
CallAddMarriage ==
  \E person1_id \in PersonIds(db), person2_id \in PersonIds(db) :
    /\ person1_id # person2_id
    /\ HasMarriage(db, person1_id, person2_id) \/ LinkCount(db) < MaxLinks
    /\ db' = add_marriage(db, person1_id, person2_id, NoDate, NoPlace, ConfFull, NoId)
    /\ call' = [ op |-> "add_marriage", person1_id |-> person1_id,
                 person2_id |-> person2_id ]

NextLinks ==
  PopulateBirth \/ PopulateDeath \/ PopulateMarriage
    \/ CallAddRelationship \/ CallAddMarriage

SpecLinks == Init /\ [][NextLinks]_vars

\* the stored row of an id, NoPerson when there is none
RowOrNone(d, id) == IF id \in PersonIds(d) THEN PersonRow(d, id) ELSE NoPerson

\* tree_builder.merge_persons(person1_id, person2_id), on stored ids and on
\* ids that are not stored
MergePersons ==
  \E person1_id \in 1..db.next_person_id, person2_id \in 1..db.next_person_id :
    \E r \in {merge_persons(db, person1_id, person2_id)} :
       /\ db' = r.db
       /\ call' = [ op |-> "merge", keep |-> person1_id, drop |-> person2_id,
                    ret |-> r.person, kept |-> RowOrNone(db, person1_id),
                    dropped |-> RowOrNone(db, person2_id) ]

\* tree_builder.build_trees()
BuildTrees ==
  /\ call' = [op |-> "build_trees", trees |-> build_trees(db)]
  /\ UNCHANGED db

\* tree_builder.get_ancestors(person_id, generations)
GetAncestors ==
  \E person_id \in 1..db.next_person_id, generations \in {1, 2} :
    /\ call' = [ op |-> "get_ancestors", person_id |-> person_id,
                 generations |-> generations,
                 tree |-> get_ancestors(db, person_id, generations) ]
    /\ UNCHANGED db

NextMerge == PopulateBirth \/ PopulateDeath \/ PopulateMarriage \/ MergePersons

SpecMerge == Init /\ [][NextMerge]_vars

NextTree ==
  PopulateBirth \/ PopulateDeath \/ PopulateMarriage \/ BuildTrees \/ GetAncestors

SpecTree == Init /\ [][NextTree]_vars

(***************************************************************************)
(* The similarity score as a function of two names                         *)
(***************************************************************************)
SimNames ==
  { NoName, <<>>, Jan, <<"J", "A", "N">>, Janek, <<"J", "a", "s_">>,
    <<"J", "a", "s">>, Adam, <<"A", "d", "a", "s_">>,
    <<"J", "o_", "z", "e", "f">>, <<"J", "o", "z", "e", "k">>, Kowalski }

InitSim ==
  /\ db = EmptyDb
  /\ \E a \in SimNames, b \in SimNames : call = [op |-> "names", a |-> a, b |-> b]

\* _name_similarity(a, b) and _name_similarity(b, a)
Similarity ==
  /\ call.op = "names"
  /\ call' = [ op |-> "similarity", a |-> call.a, b |-> call.b,
               ab |-> name_similarity(call.a, call.b),
               ba |-> name_similarity(call.b, call.a) ]
  /\ UNCHANGED db

NextSim == Similarity

SpecSim == InitSim /\ [][NextSim]_vars

(***************************************************************************)
(* The similarity score on the entries of the diminutive table             *)
(***************************************************************************)
\* str.upper() on one character
UpperOf(c) ==
  CASE c = "a" -> "A" [] c = "b" -> "B" [] c = "c" -> "C" [] c = "d" -> "D"
    [] c = "e" -> "E" [] c = "f" -> "F" [] c = "g" -> "G" [] c = "h" -> "H"
    [] c = "i" -> "I" [] c = "j" -> "J" [] c = "k" -> "K" [] c = "l" -> "L"
    [] c = "m" -> "M" [] c = "n" -> "N" [] c = "o" -> "O" [] c = "p" -> "P"
    [] c = "r" -> "R" [] c = "s" -> "S" [] c = "t" -> "T" [] c = "u" -> "U"
    [] c = "w" -> "W" [] c = "y" -> "Y" [] c = "z" -> "Z"
    [] c = "a_" -> "A_" [] c = "c_" -> "C_" [] c = "e_" -> "E_"
    [] c = "l_" -> "L_" [] c = "n_" -> "N_" [] c = "o_" -> "O_"
    [] c = "s_" -> "S_" [] c = "z_" -> "Z_" [] c = "z__" -> "Z__"
    [] OTHER -> c

\* a name as written in the table ("lower"), with a capital initial
\* ("title") or in capitals ("upper")
Cased(name, casing) ==
  [i \in 1..Len(name) |->
     IF casing = "upper" \/ (casing = "title" /\ i = 1) THEN UpperOf(name[i])
     ELSE name[i]] \o <<>>

Casings == {"lower", "title", "upper"}

\* the pairs <<canonical name, diminutive>> of the table
DiminutivePairs ==
  UNION { { <<canon, diminutives[canon][i]>> : i \in 1..Len(diminutives[canon]) } :
          canon \in DOMAIN diminutives }

InitDim ==
  /\ db = EmptyDb
  /\ \E pair \in DiminutivePairs, ca \in Casings, cb \in Casings :
       call = [op |-> "names", a |-> Cased(pair[1], ca), b |-> Cased(pair[2], cb)]

SpecDim == InitDim /\ [][NextSim]_vars

(***************************************************************************)
(* The three event resolvers, each called as the import loop calls it:     *)
(* the event row is stored, then the person of the event is resolved       *)
(***************************************************************************)
MaxResolved == 3

\* births of one name: dated, undated, and dated three years later
ResolveBirths ==
  { Birth(11, 1, 1850, Jan, Kowalski, "Kowel", NoName),
    Birth(NoInt, NoInt, NoInt, Jan, Kowalski, "Luck", NoName),
    Birth(1, 1, 1853, Jan, Kowalski, NoPlace, NoName) }

\* deaths of the same name: implied birth years 1850, 1850 and 1890, and one
\* without year and age
ResolveDeaths ==
  { Death(1900, Jan, Kowalski, 50, "Luck"),
    Death(1910, Jan, Kowalski, 60, "Kowel"),
    Death(1910, Jan, Kowalski, 20, "Kowel"),
    Death(NoInt, Jan, Kowalski, NoInt, "Luck") }

\* marriages of a groom of the same name: implied birth years 1850 and 1840,
\* and one without the groom's age; the bride's age is never given
ResolveMarriages ==
  { Wedding(1875, Jan, 25, "Kowel", NoName, Maria, Nowak, "Luck"),
    Wedding(1875, Jan, 35, "Luck", NoName, Maria, Nowak, "Kowel"),
    Wedding(1875, Jan, NoInt, "Luck", NoName, Maria, Nowak, NoPlace) }

\* birth_event = db.add_birth_event(**birth);
\* person = self._create_or_update_person_from_birth(birth_event)
ResolveBirth ==
  \E birth \in ResolveBirths :
    /\ EventCount(db) < MaxResolved
    /\ \E d1 \in {add_birth_event(db, birth)} :
       \E r \in {create_or_update_person_from_birth(d1, birth, Len(d1.birth_events))} :
         /\ db' = r.db
         /\ call' = [ op |-> "resolve", kind |-> "birth", event |-> birth,
                      persons |-> <<r.person>> ]

\* death_event = db.add_death_event(**death);
\* person = self._create_or_update_person_from_death(death_event)
ResolveDeath ==
  \E death \in ResolveDeaths :
    /\ EventCount(db) < MaxResolved
    /\ \E d1 \in {add_death_event(db, death)} :
       \E r \in {create_or_update_person_from_death(d1, death, Len(d1.death_events))} :
         /\ db' = r.db
         /\ call' = [ op |-> "resolve", kind |-> "death", event |-> death,
                      persons |-> <<r.person>> ]

\* marriage_event = db.add_marriage_event(**marriage);
\* groom = self._create_or_update_person_from_marriage(marriage_event, is_groom=True);
\* bride = self._create_or_update_person_from_marriage(marriage_event, is_groom=False)
ResolveMarriage ==
  \E marriage \in ResolveMarriages :
    /\ EventCount(db) < MaxResolved
    /\ \E d1 \in {add_marriage_event(db, marriage)} :
       \E g \in {create_or_update_person_from_marriage(d1, marriage, TRUE)} :
       \E b \in {create_or_update_person_from_marriage(g.db, marriage, FALSE)} :
         /\ db' = b.db
         /\ call' = [ op |-> "resolve", kind |-> "marriage", event |-> marriage,
                      persons |-> <<g.person, b.person>> ]

NextResolve == ResolveBirth \/ ResolveDeath \/ ResolveMarriage

SpecResolve == Init /\ [][NextResolve]_vars

(***************************************************************************)
(* Imports of batches whose events name parents                            *)
(***************************************************************************)
MaxFamilyEvents == 3

\* a birth record with both parent fields
BirthOf(first_name, last_name, location, father_first_name, mother_first_name, mother_maiden_name) ==
  [ Birth(NoInt, NoInt, 1850, first_name, last_name, location, father_first_name)
      EXCEPT !.mother_first_name = mother_first_name,
             !.mother_maiden_name = mother_maiden_name ]

\* a child with a surname whose mother has no maiden name, a child without
\* surname, a child whose mother has a maiden name, and a child whose surname
\* and whose mother's maiden name are empty strings
FamilyBirths ==
  { BirthOf(Jan, Kowalski, "Kowel", Adam, Maria, NoName),
    BirthOf(Piotr, NoName, "Kowel", Adam, NoName, NoName),
    BirthOf(Anna, Nowak, "Luck", NoName, Maria, Kowalski),
    BirthOf(Janek, <<>>, "Luck", Adam, Maria, <<>>) }

FamilyMarriages ==
  { [ Wedding(1875, Jan, 25, "Kowel", Adam, Anna, Nowak, "Luck")
        EXCEPT !.groom_mother_first_name = Maria,
               !.bride_mother_first_name = Maria,
               !.bride_mother_maiden_name = Kowalski ] }

\* the batches: one or two births, then no or one marriage
FamilyBatches ==
  { Batch(births, <<>>, marriages) :
      births \in { <<b>> : b \in FamilyBirths }
                   \cup { <<b1, b2>> : b1 \in FamilyBirths, b2 \in FamilyBirths },
      marriages \in { <<>> } \cup { <<m>> : m \in FamilyMarriages } }

\* tree_builder.import_scraped_data(data) on a batch of events
ImportFamilyData ==
  \E data \in FamilyBatches :
    /\ EventCount(db) + Len(data.births) + Len(data.marriages) <= MaxFamilyEvents
    /\ \E r \in {import_scraped_data(db, data)} :
         /\ db' = r.db
         /\ call' = [op |-> "import_batch", data |-> data, stats |-> r.stats]

NextFamily == ImportFamilyData

SpecFamily == Init /\ [][NextFamily]_vars

(***************************************************************************)
(* Imports of death records with free-text notes                           *)
(***************************************************************************)
MaxNotesEvents == 2

\* words joined by single spaces
RECURSIVE Words(_)
Words(ws) ==
  IF Len(ws) = 0 THEN <<>>
  ELSE IF Len(ws) = 1 THEN ws[1]
  ELSE ws[1] \o <<" ">> \o Words(Tail(ws))

\* "syn Adam i Maria", "zona Adam", "maz Maria", "synowie: Jan, Piotr" and
\* "dzieci: Jan, Anna" (with the diacritics of the keywords)
NoteTexts ==
  { Words(<<syn, Adam, <<"i">>, Maria>>),
    Words(<<zona, Adam>>),
    Words(<<maz, Maria>>),
    Words(<<synowie \o <<":">>, Jan \o <<",">>, Piotr>>),
    Words(<<dzieci \o <<":">>, Jan \o <<",">>, Anna>>) }

\* deaths of one person, with and without notes
NotesDeaths ==
  { Death(1900, Jan, Kowalski, 50, "Luck") }
  \cup { [ Death(1900, Jan, Kowalski, 50, "Luck")
             EXCEPT !.about_deceased_and_family = text ] : text \in NoteTexts }

\* tree_builder.import_scraped_data({'deaths': [death]})
ImportDeathData ==
  \E death \in NotesDeaths :
    /\ EventCount(db) < MaxNotesEvents
    /\ \E data \in {Batch(<<>>, <<death>>, <<>>)} :
       \E r \in {import_scraped_data(db, data)} :
         /\ db' = r.db
         /\ call' = [op |-> "import_batch", data |-> data, stats |-> r.stats]

NextNotes == ImportDeathData \/ ImportFamilyData

SpecNotes == Init /\ [][NextNotes]_vars

(***************************************************************************)
(* Imports during which the storage may fail to insert one event           *)
(***************************************************************************)
MaxFaultEvents == 2

FaultBatches ==
  FamilyBatches \cup { Batch(<<>>, <<death>>, <<>>) : death \in NotesDeaths }

\* the events of a batch, by kind and index
EventKeys(data) ==
  { <<"births", i>> : i \in 1..Len(data.births) }
  \cup { <<"deaths", i>> : i \in 1..Len(data.deaths) }
  \cup { <<"marriages", i>> : i \in 1..Len(data.marriages) }

\* tree_builder.import_scraped_data(data) while the storage fails to insert
\* no event or one event of the batch; an exception leaves the caller
\* without stats
ImportWithStorageFailure ==
  \E data \in FaultBatches :
    /\ EventCount(db) + Cardinality(EventKeys(data)) <= MaxFaultEvents
    /\ \E failing \in { {} } \cup { {key} : key \in EventKeys(data) } :
       \E r \in {import_scraped_data_or_raise(db, data, failing)} :
         /\ db' = r.st.db
         /\ call' = [ op |-> "import_failing", data |-> data, failing |-> failing,
                      raised |-> r.raised,
                      stats |-> IF r.raised THEN ZeroStats ELSE r.st.stats ]

NextFaults == ImportWithStorageFailure

SpecFaults == Init /\ [][NextFaults]_vars

(***************************************************************************)
(* Merges during which one storage step may fail                           *)
(***************************************************************************)
MergeFailures == {"none", "parents", "children", "spouses", "delete"}

\* tree_builder.merge_persons(person1_id, person2_id) on two stored persons,
\* while no or one storage step of the call fails
MergeWithStorageFailure ==
  \E person1_id \in PersonIds(db), person2_id \in PersonIds(db), fail \in MergeFailures :
    /\ person1_id # person2_id
    /\ \E r \in {merge_persons_failing(db, person1_id, person2_id, fail)},
          ok \in {merge_persons_failing(db, person1_id, person2_id, "none")} :
         \* an insert can fail only where the call makes one
         /\ fail \in {"none", "delete"} \/ r.db # ok.db
         /\ db' = r.db
         /\ call' = [ op |-> "merge_failing", keep |-> person1_id, drop |-> person2_id,
                      fail |-> fail, ret |-> r.person ]

NextMergeFaults ==
  PopulateBirth \/ PopulateDeath \/ PopulateMarriage \/ MergeWithStorageFailure

SpecMergeFaults == Init /\ [][NextMergeFaults]_vars

(***************************************************************************)
(* get_ancestors and get_descendants as they execute: the activations of   *)
(* _add_ancestors / _add_descendants on a stack, one loop step at a time   *)
(***************************************************************************)
MaxGenerations == 2
MaxCycleLinks == 3

\* "for rel in ...": a mutant that stays on the same row, and the advance
SameRow(i) == i

NextRow(i) == i + 1

\* the rows the loop of an activation runs over
TraversalRows(kind, person) ==
  IF kind = "ancestors" THEN person.parents ELSE person.children

\* one activation: its person object, its generation, the row its loop is
\* at, and whether the recursive call made for that row has returned
Frame(person, current_gen) ==
  [ person |-> person, current_gen |-> current_gen, i |-> 1, returned |-> FALSE ]

\* "for child_rel in child.parents" of _add_descendants
RECURSIVE AddOtherParents(_, _, _, _)
AddOtherParents(person, child, tree, k) ==
  IF k > Len(child.parents) THEN tree
  ELSE LET child_rel == child.parents[k]
           other_parent == child_rel.parent
       IN The({ AddOtherParents(person, child, t, k + 1) :
                t \in { IF other_parent.id = person.id THEN tree
                        ELSE AddEdge(AddEdge(AddEdge(
                               AddNode(tree, other_parent.id,
                                       IF child_rel.is_father THEN MALE ELSE FEMALE),
                               other_parent.id, child.id, "parent"),
                               person.id, other_parent.id, "spouse"),
                               other_parent.id, person.id, "spouse") } })

\* the loop body of the top activation up to its recursive call
BeforeRecursion(kind, person, rel, tree) ==
  IF kind = "ancestors"
  THEN AddEdge(AddNode(tree, rel.parent.id, IF rel.is_father THEN MALE ELSE FEMALE),
               rel.parent.id, person.id, "parent")
  ELSE AddOtherParents(person, rel.child,
                       AddEdge(AddNode(tree, rel.child.id, UNKNOWN),
                               person.id, rel.child.id, "parent"), 1)

\* the loop body of the top activation after its recursive call
AfterRecursion(d, kind, person, rel, tree) ==
  IF kind = "ancestors" THEN AddParentSpouses(d, person, rel.parent, rel, tree, 1)
  ELSE tree

\* one step of a running traversal: the top activation returns, or runs
\* its loop body up to the recursive call, or finishes the body and moves
\* to the next row
TraversalStep(d, run) ==
  LET n == Len(run.stack)
      top == run.stack[n]
      rows == TraversalRows(run.kind, top.person)
  IN IF top.current_gen >= run.generations \/ top.i > Len(rows)
     THEN [run EXCEPT !.stack = SubSeq(@, 1, n - 1)]
     ELSE IF top.returned
     THEN [run EXCEPT !.tree = AfterRecursion(d, run.kind, top.person, rows[top.i], @),
                      !.stack[n] = [top EXCEPT !.i = NextRow(@), !.returned = FALSE]]
     ELSE [run EXCEPT !.tree = BeforeRecursion(run.kind, top.person, rows[top.i], @),
                      !.stack = Append([@ EXCEPT ![n].returned = TRUE],
                                       Frame(IF run.kind = "ancestors"
                                             THEN rows[top.i].parent
                                             ELSE rows[top.i].child,
                                             top.current_gen + 1))]

\* mutant of StartOfTraversal: the generation counter starts one too low
StartOfTraversal_early(d, kind, person_id, generations) ==
  The({ [ op |-> "traverse", kind |-> kind, person_id |-> person_id,
          generations |-> generations,
          tree |-> IF person.id = NoId THEN NoTree
                   ELSE [nodes |-> <<[id |-> person.id, gender |-> UNKNOWN]>>,
                         edges |-> <<>>],
          stack |-> IF person.id = NoId THEN <<>> ELSE <<Frame(person, -1)>> ] :
        person \in {get_person_by_id(d, person_id)} })

\* get_ancestors / get_descendants up to the first activation
StartOfTraversal(d, kind, person_id, generations) ==
  The({ [ op |-> "traverse", kind |-> kind, person_id |-> person_id,
          generations |-> generations,
          tree |-> IF person.id = NoId THEN NoTree
                   ELSE [nodes |-> <<[id |-> person.id, gender |-> UNKNOWN]>>,
                         edges |-> <<>>],
          stack |-> IF person.id = NoId THEN <<>> ELSE <<Frame(person, 0)>> ] :
        person \in {get_person_by_id(d, person_id)} })

Traversing == IF call.op = "traverse" THEN call.stack # <<>> ELSE FALSE

TraversalIdle == ~Traversing

\* the population: imported births, and parent-child rows between any two
\* stored persons, the two being the same person included
PopulateForTraversal == TraversalIdle /\ PopulateBirth

LinkAnyTwo ==
  /\ TraversalIdle
  /\ Len(db.relationships) < MaxCycleLinks
  /\ \E parent_id \in PersonIds(db), child_id \in PersonIds(db), is_father \in BOOLEAN :
       /\ ~HasRelationship(db, parent_id, child_id)
       /\ db' = add_relationship(db, parent_id, child_id, is_father, ConfFull)
       /\ call' = [ op |-> "add_relationship", parent_id |-> parent_id,
                    child_id |-> child_id, is_father |-> is_father,
                    confidence |-> ConfFull ]

\* tree_builder.get_ancestors / get_descendants(person_id, generations) begins
StartTraversal ==
  /\ TraversalIdle
  /\ \E kind \in {"ancestors", "descendants"}, person_id \in 1..db.next_person_id,
        generations \in 0..MaxGenerations :
       call' = StartOfTraversal(db, kind, person_id, generations)
  /\ UNCHANGED db

\* the running traversal makes its next step
StepTraversal ==
  /\ Traversing
  /\ call' = TraversalStep(db, call)
  /\ UNCHANGED db

NextTraverse == PopulateForTraversal \/ LinkAnyTwo \/ StartTraversal \/ StepTraversal

\* a traversal runs to its end once begun: nothing else runs meanwhile
SpecTraverse == Init /\ [][NextTraverse]_vars /\ WF_vars(StepTraversal)

(***************************************************************************)
(* Two imports resolving birth events against the same stored persons.     *)
(* _create_or_update_person_from_birth reads the persons                   *)
(* (find_matches_by_name), decides, and then writes (add_person or an      *)
(* update); between the read and the write of one call the other call may  *)
(* run.                                                                    *)
(***************************************************************************)
MaxRacePersons == 3
MaxRaceEvents == 4

\* the read half of _create_or_update_person_from_birth: the candidate the
\* loop accepts and the branch that accepts it, NoId and 0 when none passes
ScanBirth(d, ev) ==
  LET birth_date == IF FalsyInt(ev.year) THEN NoDate
                    ELSE MakeDate(ev.year, ev.month, ev.day)
  IN The({ The({
       IF hit = 0 THEN [person |-> NoId, gate |-> 0]
       ELSE [ person |-> similar[hit].person,
              gate |-> BirthGate(PersonRow(d, similar[hit].person), birth_date,
                                 ev.location) ] :
       hit \in {FirstIndex({i \in 1..Len(similar) :
                  BirthGate(PersonRow(d, similar[i].person), birth_date, ev.location) # 0})} }) :
     similar \in {find_matches_by_name(d, ev.first_name, ev.last_name, Threshold)} })

\* the write half, on the store as it is by then: the update of the accepted
\* person and the link of the event, or add_person and the link
ActBirth(d, ev, event_id, found) ==
  LET birth_date == IF FalsyInt(ev.year) THEN NoDate
                    ELSE MakeDate(ev.year, ev.month, ev.day)
  IN IF found.person # NoId
     THEN The({ Resolved(LinkBirthEvent(UpdatePerson(d, p.id,
                           IF found.gate = 1
                           THEN (IF FalsyStr(p.birth_place) /\ ~FalsyStr(ev.location)
                                 THEN [p EXCEPT !.birth_place = ev.location] ELSE p)
                           ELSE [p EXCEPT !.birth_date = birth_date]),
                         event_id, p.id), p.id) :
                p \in {PersonRow(d, found.person)} })
     ELSE The({ Resolved(LinkBirthEvent(d1, event_id, LastPersonId(d1)), LastPersonId(d1)) :
                d1 \in {add_person(d, ev.first_name, ev.last_name, birth_date, NoDate,
                                   ev.location, NoPlace, ConfFull)} })

\* birth events of one child as several records give them: the day of the
\* birth and the day of the baptism, the name and its diminutive
RaceBirths ==
  { Birth(11, 1, 1850, Jan, Kowalski, "Kowel", NoName),
    Birth(20, 1, 1850, Jan, Kowalski, "Kowel", NoName),
    Birth(11, 1, 1850, Janek, Kowalski, "", NoName),
    Birth(2, 2, 1850, Maria, Nowak, "Luck", NoName) }

BirthDateOf(ev) == MakeDate(ev.year, ev.month, ev.day)

\* two events that the resolver takes for one person: names at least 0.8
\* similar on average, dates at most 30 days apart
SimilarBirths(ev1, ev2) ==
  /\ SimGe(SimAvg(name_similarity(ev1.first_name, ev2.first_name),
                  name_similarity(ev1.last_name, ev2.last_name)), <<4, 5>>)
  /\ Abs(DaysBetween(BirthDateOf(ev1), BirthDateOf(ev2))) <= 30

\* no stored person has a name similar to the event's
NotYetCreated(d, ev) ==
  \A i \in 1..Len(d.persons) :
     ~SimGe(SimAvg(name_similarity(ev.first_name, d.persons[i].first_name),
                   name_similarity(ev.last_name, d.persons[i].last_name)), <<4, 5>>)

RaceRunning ==
  IF call.op = "race" THEN \E t \in 1..2 : call.threads[t].pc # "done" ELSE FALSE

\* one unrelated birth is imported while no race runs
PopulateBeforeRace ==
  /\ ~RaceRunning
  /\ Len(db.persons) < MaxRacePersons - 1
  /\ EventCount(db) < MaxRaceEvents - 2
  /\ \E r \in {import_scraped_data(db, Batch(<<Birth(2, 2, 1850, Maria, Nowak, "Luck", NoName)>>, <<>>, <<>>))} :
       /\ db' = r.db
       /\ call' = [op |-> "import", stats |-> r.stats]

\* two imports begin, each with one birth event of the same child, who is
\* not stored yet; serialized says whether the calls are serialized
StartRace ==
  /\ ~RaceRunning
  /\ Len(db.persons) + 2 <= MaxRacePersons
  /\ EventCount(db) + 2 <= MaxRaceEvents
  /\ \E ev1 \in RaceBirths, ev2 \in RaceBirths, serialized \in BOOLEAN :
       /\ SimilarBirths(ev1, ev2)
       /\ NotYetCreated(db, ev1) /\ NotYetCreated(db, ev2)
       /\ call' = [ op |-> "race", serialized |-> serialized,
                    threads |-> << [event |-> ev1, event_id |-> 0, pc |-> "scan",
                                    found |-> [person |-> NoId, gate |-> 0]],
                                   [event |-> ev2, event_id |-> 0, pc |-> "scan",
                                    found |-> [person |-> NoId, gate |-> 0]] >> ]
  /\ UNCHANGED db

\* serialized: one call stores its event and resolves it in one step
ResolveSerialized ==
  /\ RaceRunning /\ call.serialized
  /\ \E t \in 1..2 :
       /\ call.threads[t].pc = "scan"
       /\ \E d1 \in {add_birth_event(db, call.threads[t].event)} :
            \E r \in {create_or_update_person_from_birth(d1, call.threads[t].event,
                                                         Len(d1.birth_events))} :
              /\ db' = r.db
              /\ call' = [call EXCEPT !.threads[t].pc = "done",
                                      !.threads[t].event_id = Len(d1.birth_events)]

\* not serialized: one call stores its event and reads the candidates
ScanStep ==
  /\ RaceRunning /\ ~call.serialized
  /\ \E t \in 1..2 :
       /\ call.threads[t].pc = "scan"
       /\ \E d1 \in {add_birth_event(db, call.threads[t].event)} :
            /\ db' = d1
            /\ call' = [call EXCEPT !.threads[t].pc = "insert",
                                    !.threads[t].event_id = Len(d1.birth_events),
                                    !.threads[t].found = ScanBirth(d1, call.threads[t].event)]

\* not serialized: one call writes what it decided when it read
ActStep ==
  /\ RaceRunning /\ ~call.serialized
  /\ \E t \in 1..2 :
       /\ call.threads[t].pc = "insert"
       /\ db' = ActBirth(db, call.threads[t].event, call.threads[t].event_id,
                         call.threads[t].found).db
       /\ call' = [call EXCEPT !.threads[t].pc = "done"]

NextRace == PopulateBeforeRace \/ StartRace \/ ResolveSerialized \/ ScanStep \/ ActStep

SpecRace == Init /\ [][NextRace]_vars

(***************************************************************************)
(* find_matches_by_name and the resolvers over persons of similar names    *)
(***************************************************************************)
MaxMatchEvents == 3

\* births of Jan Kowalski and of his diminutive, three years apart
MatchBirths ==
  { Birth(11, 1, 1850, Janek, Kowalski, "Kowel", NoName),
    Birth(1, 1, 1853, Jan, Kowalski, "Luck", NoName),
    Birth(20, 1, 1853, Jan, Kowalski, "Kowel", NoName),
    Birth(15, 1, 1850, Jan, Kowalski, NoPlace, NoName),
    Birth(NoInt, NoInt, NoInt, Adam, Nowak, "Luck", NoName) }

MatchThresholds == { <<4, 5>>, <<19, 20>>, <<1, 1>> }

\* a death and a marriage of Jan Kowalski, born about 1853
MatchDeaths == { Death(1910, Jan, Kowalski, 57, "Kowel") }

MatchMarriages == { Wedding(1875, Jan, 25, "Kowel", NoName, Maria, Nowak, "Luck") }

\* one birth event is stored and resolved
MatchBirth ==
  \E birth \in MatchBirths :
    /\ EventCount(db) < MaxMatchEvents
    /\ \E d1 \in {add_birth_event(db, birth)} :
       \E r \in {create_or_update_person_from_birth(d1, birth, Len(d1.birth_events))} :
         /\ db' = r.db
         /\ call' = [ op |-> "resolve", kind |-> "birth", event |-> birth,
                      persons |-> <<r.person>> ]

\* one death event is stored and resolved
MatchDeath ==
  \E death \in MatchDeaths :
    /\ EventCount(db) < MaxMatchEvents
    /\ \E d1 \in {add_death_event(db, death)} :
       \E r \in {create_or_update_person_from_death(d1, death, Len(d1.death_events))} :
         /\ db' = r.db
         /\ call' = [ op |-> "resolve", kind |-> "death", event |-> death,
                      persons |-> <<r.person>> ]

\* one marriage event is stored, its groom and then its bride are resolved
MatchMarriage ==
  \E marriage \in MatchMarriages :
    /\ EventCount(db) < MaxMatchEvents
    /\ \E d1 \in {add_marriage_event(db, marriage)} :
       \E g \in {create_or_update_person_from_marriage(d1, marriage, TRUE)} :
       \E b \in {create_or_update_person_from_marriage(g.db, marriage, FALSE)} :
         /\ db' = b.db
         /\ call' = [ op |-> "resolve", kind |-> "marriage", event |-> marriage,
                      persons |-> <<g.person, b.person>> ]

\* tree_builder.find_matches_by_name(first_name, last_name, threshold)
FindMatches ==
  /\ db.persons # <<>>
  /\ \E first_name \in {Jan, Janek}, threshold \in MatchThresholds :
       call' = [ op |-> "find_matches", first_name |-> first_name,
                 last_name |-> Kowalski, threshold |-> threshold,
                 matches |-> find_matches_by_name(db, first_name, Kowalski, threshold) ]
  /\ UNCHANGED db

NextMatch == MatchBirth \/ MatchDeath \/ MatchMarriage \/ FindMatches

SpecMatch == Init /\ [][NextMatch]_vars

(***************************************************************************)
(* Properties                                                              *)
(***************************************************************************)
\* the date of a birth event as the resolver reads it
EventDate(ev) ==
  IF FalsyInt(ev.year) THEN NoDate ELSE MakeDate(ev.year, ev.month, ev.day)

\* exactly two birth events, of one first and last name and with valid
\* dates, have been imported into the empty population
TwoBirthsOfOneName ==
  /\ Len(db.birth_events) = 2
  /\ EventCount(db) = 2
  /\ db.birth_events[1].event.first_name = db.birth_events[2].event.first_name
  /\ db.birth_events[1].event.last_name = db.birth_events[2].event.last_name
  /\ EventDate(db.birth_events[1].event) # NoDate
  /\ EventDate(db.birth_events[2].event) # NoDate

BirthsApart ==
  Abs(DaysBetween(EventDate(db.birth_events[1].event),
                  EventDate(db.birth_events[2].event)))

Namesakes(d, ev) ==
  {id \in PersonIds(d) : /\ PersonRow(d, id).first_name = ev.first_name
                         /\ PersonRow(d, id).last_name = ev.last_name}

\* C1: two birth events with the same first and last name and valid dates,
\* imported one after the other into an empty population, resolve to the
\* same person (one person record of that name) when their dates are at most
\* 30 days apart, and to two distinct person records when they are further
\* apart
C1_SamePersonWithin30Days ==
  TwoBirthsOfOneName =>
    /\ db.birth_events[1].person_id \in PersonIds(db)
    /\ db.birth_events[2].person_id \in PersonIds(db)
    /\ (db.birth_events[1].person_id = db.birth_events[2].person_id)
         <=> (BirthsApart <= 30)
    /\ Cardinality(Namesakes(db, db.birth_events[1].event))
         = IF BirthsApart <= 30 THEN 1 ELSE 2

\* two births exactly 30 days apart were resolved to one person
C1_Witness ==
  /\ TwoBirthsOfOneName
  /\ BirthsApart = 30
  /\ db.birth_events[1].person_id = db.birth_events[2].person_id

\* the one birth event {Jan, Kowalski, 1850, father Adam} has been imported
\* into the empty population
OneBirthWithFather ==
  /\ call.op = "import"
  /\ EventCount(db) = 1
  /\ Len(db.birth_events) = 1
  /\ db.birth_events[1].event = Birth(NoInt, NoInt, 1850, Jan, Kowalski, NoPlace, Adam)

\* C7: importing the single birth event {Jan, Kowalski, 1850, father Adam}
\* into the empty population returns births_imported = 1, persons_created =
\* 2 and relationships_created = 1, and the one stored relationship has
\* is_father set and leads from the father to the child
C7_BirthWithFatherStats ==
  OneBirthWithFather =>
    /\ call.stats.births_imported = 1
    /\ call.stats.persons_created = 2
    /\ call.stats.relationships_created = 1
    /\ Len(db.relationships) = 1
    /\ db.relationships[1].is_father
    /\ PersonRow(db, db.relationships[1].parent_id).first_name = Adam
    /\ PersonRow(db, db.relationships[1].child_id).first_name = Jan
    /\ db.relationships[1].child_id = db.birth_events[1].person_id

\* C10: the similarity score does not depend on the order of the two names,
\* for absent and empty names, names that differ in case or diacritics, and
\* diminutive pairs alike
C10_SimilaritySymmetric ==
  call.op = "similarity" => SimEq(call.ab, call.ba)

\* a diminutive was scored against its canonical name, the diminutive first
C10_Witness ==
  /\ call.op = "similarity"
  /\ IsDiminutiveOf(normalize_name(call.b), normalize_name(call.a))
  /\ call.ab = <<9, 10>>

\* no two stored marriages join the same two persons, in either order
UniqueSpousePairs(d) ==
  \A i, j \in 1..Len(d.marriages) :
    i # j => {d.marriages[i].person1_id, d.marriages[i].person2_id}
               # {d.marriages[j].person1_id, d.marriages[j].person2_id}

\* the only imports so far are two imports of one marriage event
SameMarriageTwice(d) ==
  /\ Len(d.marriage_events) = 2
  /\ EventCount(d) = 2
  /\ d.marriage_events[1].event = d.marriage_events[2].event

Married(d, a, b) ==
  \E i \in 1..Len(d.marriages) :
    {d.marriages[i].person1_id, d.marriages[i].person2_id} = {a, b}

UniqueParentChildPairs(d) ==
  \A i, j \in 1..Len(d.relationships) :
    i # j => \/ d.relationships[i].parent_id # d.relationships[j].parent_id
             \/ d.relationships[i].child_id # d.relationships[j].child_id

Related(d, parent_id, child_id) ==
  \E i \in 1..Len(d.relationships) :
    /\ d.relationships[i].parent_id = parent_id
    /\ d.relationships[i].child_id = child_id

\* C3: through imports and add_relationship calls there is at most one
\* Relationship per (parent_id, child_id), and an add_relationship call for
\* a stored pair adds no record and leaves the stored is_father and
\* confidence as they were, whatever values it is called with
C3_OneRelationshipPerPair ==
  [][ /\ UniqueParentChildPairs(db')
      /\ (call'.op = "add_relationship"
            /\ Related(db, call'.parent_id, call'.child_id))
           => db'.relationships = db.relationships ]_vars

\* add_relationship was called for a stored pair with another is_father and
\* another confidence than the stored ones
C3_Witness ==
  /\ call.op = "add_relationship"
  /\ \E i \in 1..Len(db.relationships) :
       /\ db.relationships[i].parent_id = call.parent_id
       /\ db.relationships[i].child_id = call.child_id
       /\ db.relationships[i].is_father # call.is_father
       /\ db.relationships[i].confidence # call.confidence

\* a merge of two stored, distinct persons has just been made
MergedTwoKnown ==
  /\ call.op = "merge"
  /\ call.keep # call.drop
  /\ call.kept.id # NoId
  /\ call.dropped.id # NoId

\* the value a field of keep must have after the merge; an empty place
\* counts as a missing one
BackfilledDate(kept, dropped) ==
  IF kept = NoDate /\ dropped # NoDate THEN dropped ELSE kept

BackfilledPlace(kept, dropped) ==
  IF FalsyStr(kept) /\ ~FalsyStr(dropped) THEN dropped ELSE kept

Repointed(id, keep, drop) == IF id = drop THEN keep ELSE id

\* every relationship and marriage of d that references drop has a
\* counterpart in e with keep in drop's place
RepresentedOnKeep(d, e, keep, drop) ==
  /\ \A i \in 1..Len(d.relationships) :
       (d.relationships[i].parent_id = drop \/ d.relationships[i].child_id = drop)
         => Related(e, Repointed(d.relationships[i].parent_id, keep, drop),
                       Repointed(d.relationships[i].child_id, keep, drop))
  /\ \A i \in 1..Len(d.marriages) :
       (d.marriages[i].person1_id = drop \/ d.marriages[i].person2_id = drop)
         => Married(e, Repointed(d.marriages[i].person1_id, keep, drop),
                       Repointed(d.marriages[i].person2_id, keep, drop))

\* no relationship and no marriage of d references the person id
Unreferenced(d, id) ==
  /\ \A i \in 1..Len(d.relationships) :
       d.relationships[i].parent_id # id /\ d.relationships[i].child_id # id
  /\ \A i \in 1..Len(d.marriages) :
       d.marriages[i].person1_id # id /\ d.marriages[i].person2_id # id

\* C5: after merge(keep, drop) of two stored, distinct persons every
\* relationship and marriage that referenced drop is represented by one
\* that references keep in the same role, none references drop any more,
\* and no (parent_id, child_id) pair and no unordered spouse pair is stored
\* twice
C5_MergeRepointsLinks ==
  [][ (call'.op = "merge" /\ call'.keep # call'.drop
         /\ call'.keep \in PersonIds(db) /\ call'.drop \in PersonIds(db))
        => /\ RepresentedOnKeep(db, db', call'.keep, call'.drop)
           /\ Unreferenced(db', call'.drop)
           /\ UniqueParentChildPairs(db')
           /\ UniqueSpousePairs(db') ]_vars

\* C6: merge_persons with an id that is not stored returns None and leaves
\* every person, relationship, marriage and event back-reference as it was
C6_MergeUnknownIdNoChange ==
  [][ (call'.op = "merge"
         /\ (call'.keep \notin PersonIds(db) \/ call'.drop \notin PersonIds(db)))
        => call'.ret = NoId /\ db' = db ]_vars

\* a merge of a stored person that has a birth event and a parent or child
\* link, with an id that is not stored, returned None
C6_Witness ==
  /\ call.op = "merge"
  /\ call.ret = NoId
  /\ call.kept.id # NoId
  /\ call.dropped.id = NoId
  /\ \E i \in 1..Len(db.birth_events) : db.birth_events[i].person_id = call.keep
  /\ ~Unreferenced(db, call.keep)

\* the persons linked to a person of the set by a relationship or marriage
LinkedTo(d, S) ==
  {q \in PersonIds(d) : \E p \in S : Related(d, p, q) \/ Related(d, q, p) \/ Married(d, p, q)}

\* the persons connected to the set by links taken in either direction
RECURSIVE Cluster(_, _)
Cluster(d, S) ==
  IF LinkedTo(d, S) \subseteq S THEN S ELSE Cluster(d, S \cup LinkedTo(d, S))

NodeIds(tree) == {tree.nodes[k].id : k \in 1..Len(tree.nodes)}

\* C8: build_trees partitions the population by connectivity over the
\* parent-child and spouse links taken without direction: every person is a
\* node of exactly one tree, two persons share a tree exactly when they are
\* connected, the edges of a tree join nodes of that tree, and there are as
\* many trees as clusters
C8_TreesPartitionPopulation ==
  call.op = "build_trees" =>
    /\ \A p \in PersonIds(db) :
         Cardinality({i \in 1..Len(call.trees) :
                        \E k \in 1..Len(call.trees[i].nodes) :
                          call.trees[i].nodes[k].id = p}) = 1
    /\ \A i \in 1..Len(call.trees) :
         /\ NodeIds(call.trees[i]) \subseteq PersonIds(db)
         /\ Cardinality(NodeIds(call.trees[i])) = Len(call.trees[i].nodes)
         /\ \A e \in call.trees[i].edges :
              e.source \in NodeIds(call.trees[i]) /\ e.target \in NodeIds(call.trees[i])
    /\ \A p, q \in PersonIds(db) :
         (\E i \in 1..Len(call.trees) : {p, q} \subseteq NodeIds(call.trees[i]))
           <=> q \in Cluster(db, {p})
    /\ Len(call.trees) = Cardinality({Cluster(db, {p}) : p \in PersonIds(db)})

\* two trees were built, one of them of a child listed before its parent
C8_Witness ==
  /\ call.op = "build_trees"
  /\ Len(call.trees) = 2
  /\ \E i \in 1..Len(call.trees) :
       \E e \in call.trees[i].edges :
         e.relationship = "parent" /\ e.target < e.source

\* the person has one parent link, to a father who is another person and
\* has no parent links and no marriages
OnlyAFather(d, id) ==
  /\ id \in PersonIds(d)
  /\ Cardinality({i \in 1..Len(d.relationships) : d.relationships[i].child_id = id}) = 1
  /\ \A i \in 1..Len(d.relationships) :
       d.relationships[i].child_id = id
         => /\ d.relationships[i].is_father
            /\ d.relationships[i].parent_id # id
            /\ \A j \in 1..Len(d.relationships) :
                 d.relationships[j].child_id # d.relationships[i].parent_id
            /\ \A j \in 1..Len(d.marriages) :
                 /\ d.marriages[j].person1_id # d.relationships[i].parent_id
                 /\ d.marriages[j].person2_id # d.relationships[i].parent_id

\* C9: get_ancestors(id, 2) on a person whose only parent link is to a
\* father without parents or spouses gives exactly the two nodes of the
\* person and the father, and the one parent edge from the father to the
\* person
C9_AncestorsOfOneParent ==
  (call.op = "get_ancestors" /\ call.generations = 2 /\ OnlyAFather(db, call.person_id))
    => /\ Len(call.tree.nodes) = 2
       /\ call.tree.nodes[1].id = call.person_id
       /\ Len(call.tree.edges) = 1
       /\ call.tree.edges[1].relationship = "parent"
       /\ call.tree.edges[1].target = call.person_id
       /\ call.tree.edges[1].source = call.tree.nodes[2].id
       /\ Related(db, call.tree.nodes[2].id, call.person_id)

\* the ancestors of such a person were asked for, two generations up
C9_Witness ==
  /\ call.op = "get_ancestors"
  /\ call.generations = 2
  /\ OnlyAFather(db, call.person_id)
  /\ Len(call.tree.nodes) = 2

\* the two names are an entry of the diminutive table, in some casing
IsTableEntry(a, b) ==
  \E pair \in DiminutivePairs, ca \in Casings, cb \in Casings :
    a = Cased(pair[1], ca) /\ b = Cased(pair[2], cb)

\* C11: for every canonical name of the diminutive table and every
\* diminutive listed for it, entries written with diacritics included, the
\* similarity is 0.9 in both argument orders, whatever the case of the inputs
C11_DiminutivesScoreNineTenths ==
  (call.op = "similarity" /\ IsTableEntry(call.a, call.b)) =>
     /\ SimEq(call.ab, <<9, 10>>)
     /\ SimEq(call.ba, <<9, 10>>)

\* what does hold: an entry written without diacritics on either
\* side scores 0.9 in both orders
PlainEntriesScoreNineTenths ==
  (call.op = "similarity" /\ IsTableEntry(call.a, call.b)
     /\ normalize_name(call.a) \in DOMAIN diminutives
     /\ InList(normalize_name(call.b), diminutives[normalize_name(call.a)])) =>
     /\ SimEq(call.ab, <<9, 10>>)
     /\ SimEq(call.ba, <<9, 10>>)

\* a resolver call has just been made
Resolving == call'.op = "resolve" /\ db' # db

\* a field value that was present is still the same
KeptIfPresent(before, after) ==
  /\ before.birth_date # NoDate => after.birth_date = before.birth_date
  /\ before.birth_place # NoPlace => after.birth_place = before.birth_place
  /\ before.death_date # NoDate => after.death_date = before.death_date
  /\ before.death_place # NoPlace => after.death_place = before.death_place

\* C12: whenever a birth, death or marriage event resolves to an existing
\* person, every field of that person (birth_date, birth_place, death_date,
\* death_place) that was non-null before the resolution has the same value
\* afterwards
C12_ResolutionKeepsPresentFields ==
  [][ Resolving =>
        \A k \in 1..Len(call'.persons) :
          call'.persons[k] \in PersonIds(db) =>
            KeptIfPresent(PersonRow(db, call'.persons[k]),
                          PersonRow(db', call'.persons[k])) ]_vars

\* what does hold: the birth and the marriage resolvers keep every present
\* field of the person they resolve to
BirthAndMarriageKeepPresentFields ==
  [][ (Resolving /\ call'.kind # "death") =>
        \A k \in 1..Len(call'.persons) :
          call'.persons[k] \in PersonIds(db) =>
            KeptIfPresent(PersonRow(db, call'.persons[k]),
                          PersonRow(db', call'.persons[k])) ]_vars

\* the persons of d that match the name of an event at the threshold
Candidates(d, first_name, last_name) ==
  { m.person : m \in { find_matches_by_name(d, first_name, last_name, Threshold)[i] :
                       i \in 1..Len(find_matches_by_name(d, first_name, last_name, Threshold)) } }

\* event year minus age, NoInt where one of them is missing
ImpliedBirthYear(year, age) ==
  IF ~FalsyInt(age) /\ ~FalsyInt(year) THEN year - age ELSE NoInt

WithinFiveYears(p, implied) ==
  /\ p.birth_date # NoDate
  /\ implied # NoInt
  /\ Abs(YearOf(p.birth_date) - implied) <= 5

\* C13: a death event resolves to an existing name-matching candidate
\* whenever the candidate's birth year is within 5 years of (event year minus
\* age), or the candidate has no death_date yet, also when its birth year is
\* more than 5 years off
C13_DeathResolvesToCandidate ==
  [][ (Resolving /\ call'.kind = "death") =>
        ( (\E id \in Candidates(db, call'.event.first_name, call'.event.last_name) :
              \/ WithinFiveYears(PersonRow(db, id),
                                 ImpliedBirthYear(call'.event.year, call'.event.age))
              \/ PersonRow(db, id).death_date = NoDate)
          => call'.persons[1] \in PersonIds(db) ) ]_vars

\* what does hold: a candidate within 5 years is resolved to, and so is a
\* candidate without death_date unless it has a birth date that was compared
\* with the implied year and found more than 5 years off
DeathResolvesByGate ==
  [][ (Resolving /\ call'.kind = "death") =>
        ( (\E id \in Candidates(db, call'.event.first_name, call'.event.last_name) :
              \/ WithinFiveYears(PersonRow(db, id),
                                 ImpliedBirthYear(call'.event.year, call'.event.age))
              \/ /\ PersonRow(db, id).death_date = NoDate
                 /\ \/ PersonRow(db, id).birth_date = NoDate
                    \/ ImpliedBirthYear(call'.event.year, call'.event.age) = NoInt)
          <=> call'.persons[1] \in PersonIds(db) ) ]_vars

\* the participant of a marriage event: 1 is the groom, 2 is the bride
Participant(ev, k) ==
  IF k = 1
  THEN [ first_name |-> ev.groom_first_name, last_name |-> ev.groom_last_name,
         age |-> ev.groom_age, location |-> ev.groom_location ]
  ELSE [ first_name |-> ev.bride_first_name, last_name |-> ev.bride_last_name,
         age |-> ev.bride_age, location |-> ev.bride_location ]

\* the population a participant is resolved against: the groom against the
\* population of the call, the bride against the population after the groom
ResolvedAgainst(d, ev, k) ==
  IF k = 1 THEN d
  ELSE create_or_update_person_from_marriage(add_marriage_event(d, ev), ev, TRUE).db

\* the rule of C14 for one candidate: the birth year within 5 years where the
\* comparison is available, the birth place equal to the location where not
AcceptedByYearElsePlace(p, implied, location) ==
  IF p.birth_date # NoDate /\ implied # NoInt
  THEN Abs(YearOf(p.birth_date) - implied) <= 5
  ELSE p.birth_place = location

\* C14: a groom or bride resolves to an existing name-matching candidate when
\* the candidate's birth year is within 5 years of (marriage year minus age);
\* when the year comparison is not available the candidate is accepted only
\* if its birth_place equals the participant's location, otherwise a new
\* person is created
C14_MarriageResolvesByYearElsePlace ==
  [][ (Resolving /\ call'.kind = "marriage") =>
        \A k \in {1, 2} :
          \E pre \in {ResolvedAgainst(db, call'.event, k)},
             who \in {Participant(call'.event, k)} :
            /\ (\E id \in Candidates(pre, who.first_name, who.last_name) :
                  AcceptedByYearElsePlace(PersonRow(pre, id),
                     ImpliedBirthYear(call'.event.year, who.age), who.location))
                 <=> call'.persons[k] \in PersonIds(pre)
            /\ call'.persons[k] \in PersonIds(pre) =>
                 AcceptedByYearElsePlace(PersonRow(pre, call'.persons[k]),
                    ImpliedBirthYear(call'.event.year, who.age), who.location) ]_vars

\* what does hold: the same with a candidate without birth date accepted,
\* whatever its place, when the event gives the age
MarriageResolvesByGate ==
  [][ (Resolving /\ call'.kind = "marriage") =>
        \A k \in {1, 2} :
          \E pre \in {ResolvedAgainst(db, call'.event, k)},
             who \in {Participant(call'.event, k)} :
            /\ (\E id \in Candidates(pre, who.first_name, who.last_name) :
                  \/ AcceptedByYearElsePlace(PersonRow(pre, id),
                       ImpliedBirthYear(call'.event.year, who.age), who.location)
                  \/ /\ PersonRow(pre, id).birth_date = NoDate
                     /\ ImpliedBirthYear(call'.event.year, who.age) # NoInt)
                 <=> call'.persons[k] \in PersonIds(pre)
            /\ call'.persons[k] \in PersonIds(pre) =>
                 \/ AcceptedByYearElsePlace(PersonRow(pre, call'.persons[k]),
                      ImpliedBirthYear(call'.event.year, who.age), who.location)
                 \/ /\ PersonRow(pre, call'.persons[k]).birth_date = NoDate
                    /\ ImpliedBirthYear(call'.event.year, who.age) # NoInt ]_vars

\* the parent fields of a birth record and of a marriage record, as the
\* arguments the import passes to the parent lookup
BirthParentFields(birth) ==
  << [ first_name |-> birth.father_first_name, last_name |-> NoName,
       child_last_name |-> birth.last_name, gender |-> MALE ],
     [ first_name |-> birth.mother_first_name, last_name |-> birth.mother_maiden_name,
       child_last_name |-> NoName, gender |-> FEMALE ] >>

MarriageParentFields(marriage) ==
  << [ first_name |-> marriage.groom_father_first_name, last_name |-> NoName,
       child_last_name |-> marriage.groom_last_name, gender |-> MALE ],
     [ first_name |-> marriage.groom_mother_first_name,
       last_name |-> marriage.groom_mother_maiden_name,
       child_last_name |-> NoName, gender |-> FEMALE ],
     [ first_name |-> marriage.bride_father_first_name, last_name |-> NoName,
       child_last_name |-> marriage.bride_last_name, gender |-> MALE ],
     [ first_name |-> marriage.bride_mother_first_name,
       last_name |-> marriage.bride_mother_maiden_name,
       child_last_name |-> NoName, gender |-> FEMALE ] >>

\* the parent fields of a batch, each under the index of its event
BatchParentFields(data) ==
  { <<"birth", i, BirthParentFields(data.births[i])[k]>> :
      i \in 1..Len(data.births), k \in 1..2 }
  \cup { <<"marriage", i, MarriageParentFields(data.marriages[i])[k]>> :
           i \in 1..Len(data.marriages), k \in 1..4 }

\* the parent is named, and a last name can be derived for it: its own, or
\* for a father the child's
HasDerivableLastName(f) ==
  /\ ~FalsyName(f.first_name)
  /\ \/ ~FalsyName(f.last_name)
     \/ f.gender = MALE /\ ~FalsyName(f.child_last_name)

NamedWithoutLastName(f) == ~FalsyName(f.first_name) /\ ~HasDerivableLastName(f)

DerivableCount(data) ==
  Cardinality({ t \in BatchParentFields(data) : HasDerivableLastName(t[3]) })

ImportingBatch == call'.op = "import_batch" /\ db' # db

\* C15: a parent field without derivable last name yields no person, no
\* relationship and no increment of relationships_created, and the import
\* goes on with the remaining fields and events: every event of the batch is
\* imported, relationships_created counts exactly the parent fields with a
\* derivable last name, and no more relationships and no more persons are
\* added than those fields and the events' own persons allow
C15_UnderivableParentSkipped ==
  [][ ImportingBatch =>
        /\ call'.stats.births_imported = Len(call'.data.births)
        /\ call'.stats.marriages_imported = Len(call'.data.marriages)
        /\ Len(db'.birth_events) = Len(db.birth_events) + Len(call'.data.births)
        /\ Len(db'.marriage_events)
             = Len(db.marriage_events) + Len(call'.data.marriages)
        /\ call'.stats.relationships_created = DerivableCount(call'.data)
        /\ Len(db'.relationships) - Len(db.relationships) <= DerivableCount(call'.data)
        /\ Len(db'.persons) - Len(db.persons)
             <= Len(call'.data.births) + 2 * Len(call'.data.marriages)
                  + DerivableCount(call'.data) ]_vars

\* a batch of two births was imported into the empty population: the first
\* names a father without any surname to derive, the second names a father
\* with the child's surname and a mother without maiden name; the second
\* event was processed, and the father of the second is the only parent
\* created
C15_Witness ==
  /\ call.op = "import_batch"
  /\ Len(call.data.births) = 2 /\ Len(db.birth_events) = 2
  /\ NamedWithoutLastName(BirthParentFields(call.data.births[1])[1])
  /\ HasDerivableLastName(BirthParentFields(call.data.births[2])[1])
  /\ NamedWithoutLastName(BirthParentFields(call.data.births[2])[2])
  /\ call.stats.births_imported = 2
  /\ call.stats.relationships_created = 1
  /\ Len(db.relationships) = 1
  /\ db.relationships[1].child_id = db.birth_events[2].person_id
  /\ Len(db.persons) = 3

\* the persons of the events a batch import has stored
EventPersons(d0, d1) ==
  { d1.birth_events[k].person_id : k \in (Len(d0.birth_events) + 1)..Len(d1.birth_events) }
  \cup { d1.death_events[k].person_id :
           k \in (Len(d0.death_events) + 1)..Len(d1.death_events) }

\* a person that the import of a batch of death records created and that is
\* not the deceased of a record: a mention extracted from the notes
FromNotes(d0, d1, data, id) ==
  /\ data.births = <<>> /\ data.marriages = <<>>
  /\ id \in PersonIds(d1) \ PersonIds(d0)
  /\ id \notin EventPersons(d0, d1)

\* C16: every person newly created by an import carries the confidence of
\* its source kind: 1.0 when created from a birth, death or marriage record
\* field, 0.7 when created from a mention extracted from a death record's
\* notes
C16_ConfidenceBySourceKind ==
  [][ ImportingBatch =>
        \A id \in PersonIds(db') \ PersonIds(db) :
          PersonRow(db', id).confidence
            = IF FromNotes(db, db', call'.data, id) THEN ConfNotes ELSE ConfFull ]_vars

\* what does hold: every person an import creates has confidence 1.0
CreatedWithFullConfidence ==
  [][ ImportingBatch =>
        \A id \in PersonIds(db') \ PersonIds(db) :
          PersonRow(db', id).confidence = ConfFull ]_vars

\* the import of a death record with notes has created a person from a
\* mention of the notes
SomeoneFromNotes ==
  /\ call.op = "import_batch"
  /\ Len(call.data.deaths) = 1
  /\ Len(db.death_events) = 1 /\ EventCount(db) = 1
  /\ Len(db.persons) = 2

StoredEvents(d) == Len(d.birth_events) + Len(d.death_events) + Len(d.marriage_events)

\* C17: if a storage operation fails for one record of a batch, the import
\* does not abort: the call returns its stats and every other event of the
\* batch is stored and counted
C17_StorageFailureDoesNotAbort ==
  [][ (call'.op = "import_failing" /\ call' # call /\ call'.failing # {}) =>
        /\ ~call'.raised
        /\ StoredEvents(db') = StoredEvents(db) + Cardinality(EventKeys(call'.data)) - 1
        /\ call'.stats.births_imported = Len(call'.data.births)
        /\ call'.stats.deaths_imported = Len(call'.data.deaths)
        /\ call'.stats.marriages_imported = Len(call'.data.marriages) ]_vars

\* what does hold: without a storage failure the call returns its stats and
\* every event of the batch is stored and counted
WithoutFailureAllImported ==
  [][ (call'.op = "import_failing" /\ call' # call /\ call'.failing = {}) =>
        /\ ~call'.raised
        /\ StoredEvents(db') = StoredEvents(db) + Cardinality(EventKeys(call'.data))
        /\ call'.stats.births_imported = Len(call'.data.births)
        /\ call'.stats.deaths_imported = Len(call'.data.deaths)
        /\ call'.stats.marriages_imported = Len(call'.data.marriages) ]_vars

\* C18: for every import call the returned persons_created,
\* relationships_created and marriages_created equal the number of person,
\* relationship and marriage records the call added to the storage
C18_StatsCountAddedRecords ==
  [][ ImportingBatch =>
        /\ call'.stats.persons_created = Len(db'.persons) - Len(db.persons)
        /\ call'.stats.relationships_created
             = Len(db'.relationships) - Len(db.relationships)
        /\ call'.stats.marriages_created = Len(db'.marriages) - Len(db.marriages) ]_vars

\* what does hold: persons_created is the number of birth and death events
\* of the batch, marriages_created the number of its marriage events, and
\* relationships_created the number of parent fields of its births and
\* marriages for which a parent was found or created
StatsCountEventsAndFields ==
  [][ ImportingBatch =>
        /\ call'.stats.persons_created
             = Len(call'.data.births) + Len(call'.data.deaths)
        /\ call'.stats.marriages_created = Len(call'.data.marriages)
        /\ call'.stats.relationships_created = DerivableCount(call'.data) ]_vars

\* a merge in which a storage step failed has just been made
FailedMerge ==
  /\ call'.op = "merge_failing"
  /\ call' # call \/ db' # db
  /\ call'.fail # "none"

\* C19: merge is all-or-nothing: if a storage step of merge(keep, drop) fails
\* part-way, the stored persons, relationships, marriages and event links
\* are the same as before the call
C19_MergeAllOrNothing ==
  [][ FailedMerge => db' = db ]_vars

\* the state C19 excludes: a link of drop was copied to keep, and drop was
\* not deleted
CopiedButNotDeleted ==
  /\ call.op = "merge_failing" /\ call.fail = "delete"
  /\ call.drop \in PersonIds(db)
  /\ \E i, j \in 1..Len(db.relationships) :
       /\ db.relationships[i].parent_id = db.relationships[j].parent_id
       /\ db.relationships[i].child_id = call.drop
       /\ db.relationships[j].child_id = call.keep

\* what does hold: a merge without storage failure removes drop
MergeWithoutFailureDeletes ==
  [][ (call'.op = "merge_failing" /\ (call' # call \/ db' # db)
         /\ call'.fail = "none") =>
        /\ call'.ret = call'.keep
        /\ call'.drop \notin PersonIds(db')
        /\ call'.keep \in PersonIds(db') ]_vars

\* the steps an activation still has to make: two for every row left, and
\* its return
FrameSteps(run, f) ==
  1 + (IF f.current_gen >= run.generations THEN 0
       ELSE 2 * (Len(TraversalRows(run.kind, f.person)) - f.i + 1)
            - (IF f.returned THEN 1 ELSE 0))

\* a bound on the steps left in a traversal: an activation at generation g
\* counts for all the activations it can still start, at most one per row
RECURSIVE StepsLeft(_, _, _)
StepsLeft(d, run, k) ==
  IF k > Len(run.stack) THEN 0
  ELSE FrameSteps(run, run.stack[k])
         * (2 * Len(d.relationships) + 3) ^ (run.generations - run.stack[k].current_gen)
       + StepsLeft(d, run, k + 1)

\* C20: ancestors(personId, G) and descendants(personId, G) terminate for
\* every finite G and every finite population, link cycles and self-links
\* included: every step of a traversal lowers a natural-number bound on the
\* steps left, and a traversal that has begun comes to its end
C20_TraversalsTerminate ==
  /\ [][ (Traversing /\ call' # call) =>
           /\ StepsLeft(db, call', 1) < StepsLeft(db, call, 1)
           /\ StepsLeft(db, call', 1) >= 0 ]_vars
  /\ (Traversing ~> TraversalIdle)

\* a person who is its own ancestor: over a self-link or over a cycle of
\* two rows
OwnAncestor(d, id) ==
  \/ HasRelationship(d, id, id)
  \/ \E other \in PersonIds(d) \ {id} :
       HasRelationship(d, id, other) /\ HasRelationship(d, other, id)

\* a traversal over two generations from a person who is its own ancestor
\* has come to its end
C20_Witness ==
  /\ call.op = "traverse"
  /\ call.stack = <<>>
  /\ call.generations = MaxGenerations
  /\ OwnAncestor(db, call.person_id)
  /\ Len(call.tree.edges) >= 2

\* the stepwise traversal ends with the tree that get_ancestors computes
SteppedAncestorsAgree ==
  (call.op = "traverse" /\ call.stack = <<>> /\ call.kind = "ancestors") =>
     call.tree = get_ancestors(db, call.person_id, call.generations)

\* the activations of a traversal are never nested deeper than the
\* generations asked for
DepthWithinGenerations ==
  call.op = "traverse" =>
     /\ Len(call.stack) <= call.generations + 1
     /\ \A k \in 1..Len(call.stack) : call.stack[k].current_gen = k - 1

\* both calls of a race have ended
RaceOver ==
  IF call.op = "race" THEN \A t \in 1..2 : call.threads[t].pc = "done" ELSE FALSE

\* the persons the two events of the race were resolved to
RacePerson(t) == db.birth_events[call.threads[t].event_id].person_id

\* C21: when each resolve-or-create call runs as one atomic step, two similar
\* birth events of a not-yet-created person are resolved to one person
\* record; when the calls interleave between scan and insert, a state with
\* two records for that person is reachable (C21_Witness)
C21_SerializedResolvesToOnePerson ==
  (RaceOver /\ call.serialized) => RacePerson(1) = RacePerson(2)

\* two person records for the one child, after calls that were not serialized
C21_Witness ==
  /\ RaceOver
  /\ ~call.serialized
  /\ RacePerson(1) # RacePerson(2)
  /\ RacePerson(1) \in PersonIds(db) /\ RacePerson(2) \in PersonIds(db)

\* serialized calls have been made and found one person
SerializedRaceOver == RaceOver /\ call.serialized /\ RacePerson(1) \in PersonIds(db)

\* a call that reads and writes with nothing in between does what
\* _create_or_update_person_from_birth does
ScanThenActIsResolve ==
  \A ev \in RaceBirths :
     LET d1 == add_birth_event(db, ev)
     IN ActBirth(d1, ev, Len(d1.birth_events), ScanBirth(d1, ev))
          = create_or_update_person_from_birth(d1, ev, Len(d1.birth_events))

\* the gender that the relationships in which id is the parent give
GenderAsParent(d, id) ==
  IF \E i \in 1..Len(d.relationships) :
        d.relationships[i].parent_id = id /\ d.relationships[i].is_father
  THEN MALE
  ELSE IF \E i \in 1..Len(d.relationships) : d.relationships[i].parent_id = id
  THEN FEMALE
  ELSE UNKNOWN

\* C22: in the trees returned by build_trees a person who is the parent in
\* a relationship with is_father = true is labelled male, one who is the
\* parent only in relationships with is_father = false is labelled female,
\* and one who is a parent in no relationship is labelled unknown
C22_GenderFromParentRole ==
  call.op = "build_trees" =>
     \A t \in 1..Len(call.trees) : \A k \in 1..Len(call.trees[t].nodes) :
        call.trees[t].nodes[k].gender = GenderAsParent(db, call.trees[t].nodes[k].id)

\* what does hold: the label follows the first relationship in which the
\* person is the child
GenderFromFirstParentRow ==
  call.op = "build_trees" =>
     \A t \in 1..Len(call.trees) : \A k \in 1..Len(call.trees[t].nodes) :
        LET rows == SelectSeq(db.relationships,
                              LAMBDA r : r.child_id = call.trees[t].nodes[k].id)
        IN call.trees[t].nodes[k].gender =
             IF rows = <<>> THEN UNKNOWN
             ELSE IF rows[1].is_father THEN MALE ELSE FEMALE

\* the persons one link above (kind "ancestors") or below the persons of ids
OneLinkFrom(d, kind, ids) ==
  { IF kind = "ancestors" THEN d.relationships[i].parent_id
    ELSE d.relationships[i].child_id :
    i \in { j \in 1..Len(d.relationships) :
              IF kind = "ancestors" THEN d.relationships[j].child_id \in ids
              ELSE d.relationships[j].parent_id \in ids } }

\* the persons reachable from ids over at most g links
RECURSIVE WithinLinks(_, _, _, _)
WithinLinks(d, kind, ids, g) ==
  IF g = 0 THEN ids
  ELSE WithinLinks(d, kind, ids \cup OneLinkFrom(d, kind, ids), g - 1)

\* a traversal has come to its end and returned a tree
TraversalOver ==
  IF call.op = "traverse" THEN call.stack = <<>> /\ call.tree # NoTree ELSE FALSE

TreeNodeIds(tree) == {tree.nodes[k].id : k \in 1..Len(tree.nodes)}

\* C23: ancestors(p, G) contains every person reachable from p by following
\* at most G parent links, and descendants(p, G) every person reachable by
\* following at most G child links
C23_TraversalReachesGenerations ==
  TraversalOver =>
     WithinLinks(db, call.kind, {call.person_id}, call.generations)
        \subseteq TreeNodeIds(call.tree)

\* what does hold: with G >= 1 the tree contains every person one link away
TraversalReachesOneLink ==
  (TraversalOver /\ call.generations >= 1) =>
     WithinLinks(db, call.kind, {call.person_id}, 1) \subseteq TreeNodeIds(call.tree)

\* the spouses of the persons of ids, and the other parents of their children
SpousesOf(d, ids) ==
  { IF d.marriages[i].person1_id \in ids THEN d.marriages[i].person2_id
    ELSE d.marriages[i].person1_id :
    i \in { j \in 1..Len(d.marriages) :
              d.marriages[j].person1_id \in ids \/ d.marriages[j].person2_id \in ids } }

OtherParentsOf(d, ids) == OneLinkFrom(d, "ancestors", ids)

\* the persons a tree of the kind may hold for the root and G generations
AllowedNodes(d, kind, root, g) ==
  LET near == WithinLinks(d, kind, {root}, g)
  IN near \cup (IF kind = "ancestors" THEN SpousesOf(d, near)
                ELSE OtherParentsOf(d, near))

\* C24: every node of ancestors(p, G) is the root, a person within G parent
\* links of the root, or a spouse of such a person; every node of
\* descendants(p, G) is the root, a person within G child links, or another
\* parent of such a person; with G = 0 the tree holds only the root node and
\* no edges
C24_TraversalStaysWithinGenerations ==
  (IF call.op = "traverse" THEN call.tree # NoTree ELSE FALSE) =>
     /\ TreeNodeIds(call.tree)
          \subseteq AllowedNodes(db, call.kind, call.person_id, call.generations)
     /\ call.generations = 0 =>
          /\ call.tree.nodes = <<[id |-> call.person_id, gender |-> UNKNOWN]>>
          /\ call.tree.edges = <<>>

\* a traversal over two generations has returned a tree of three persons
C24_Witness ==
  /\ TraversalOver
  /\ call.generations = MaxGenerations
  /\ Len(call.tree.nodes) >= 3

\* a traversal with G = 0 has returned
TraversalOfNoGeneration ==
  /\ TraversalOver
  /\ call.generations = 0
  /\ OneLinkFrom(db, call.kind, {call.person_id}) # {}

\* the same for get_ancestors over populations that hold marriages
AncestorsAmongSpousesStayWithin ==
  (IF call.op = "get_ancestors" THEN call.tree # NoTree ELSE FALSE) =>
     TreeNodeIds(call.tree)
        \subseteq AllowedNodes(db, "ancestors", call.person_id, call.generations)

\* C25: the tree returned by ancestors or descendants is de-duplicated for
\* any population, shared parents, several children of one parent and
\* relationship cycles included: no person id occurs twice in its nodes and
\* no (source, target, relationship) triple occurs twice in its edges
C25_TraversalTreeDeduplicated ==
  (IF call.op = "traverse" THEN call.tree # NoTree ELSE FALSE) =>
     /\ \A j, k \in 1..Len(call.tree.nodes) :
           call.tree.nodes[j].id = call.tree.nodes[k].id => j = k
     /\ \A j, k \in 1..Len(call.tree.edges) :
           call.tree.edges[j] = call.tree.edges[k] => j = k

\* a traversal from a person linked to itself as its own parent has returned
\* a tree with a second person
C25_Witness ==
  /\ TraversalOver
  /\ HasRelationship(db, call.person_id, call.person_id)
  /\ Len(call.tree.nodes) >= 2
  /\ Len(call.tree.edges) >= 2

\* the same for get_ancestors over populations that hold marriages
AncestorsAmongSpousesDeduplicated ==
  (IF call.op = "get_ancestors" THEN call.tree # NoTree ELSE FALSE) =>
     /\ \A j, k \in 1..Len(call.tree.nodes) :
           call.tree.nodes[j].id = call.tree.nodes[k].id => j = k
     /\ \A j, k \in 1..Len(call.tree.edges) :
           call.tree.edges[j] = call.tree.edges[k] => j = k

\* C26: after any sequence of imports and merges no child has more than one
\* relationship with is_father = true and no child has more than one
\* relationship with is_father = false
C26_OneFatherOneMother ==
  \A i, j \in 1..Len(db.relationships) :
     (/\ db.relationships[i].child_id = db.relationships[j].child_id
      /\ db.relationships[i].is_father = db.relationships[j].is_father) => i = j

\* the average of the first-name and the last-name similarity of a stored
\* person to a name
Score(d, id, first_name, last_name) ==
  SimAvg(name_similarity(first_name, PersonRow(d, id).first_name),
         name_similarity(last_name, PersonRow(d, id).last_name))

\* the order of the candidates: the higher score first, of equal scores the
\* lower id first
Precedes(score1, id1, score2, id2) ==
  SimGt(score1, score2) \/ (SimEq(score1, score2) /\ id1 < id2)

\* find_matches returns exactly the persons at or above the threshold, each
\* with its score, in the order of the candidates
MatchesSelectedAndOrdered ==
  call.op = "find_matches" =>
     /\ {call.matches[i].person : i \in 1..Len(call.matches)}
          = { id \in PersonIds(db) :
                SimGe(Score(db, id, call.first_name, call.last_name), call.threshold) }
     /\ \A i \in 1..Len(call.matches) :
           SimEq(call.matches[i].similarity,
                 Score(db, call.matches[i].person, call.first_name, call.last_name))
     /\ \A i, j \in 1..Len(call.matches) :
           i < j => Precedes(call.matches[i].similarity, call.matches[i].person,
                             call.matches[j].similarity, call.matches[j].person)

\* the stored persons that are candidates for a name and pass a resolver's
\* gate; passing[id] says whether the gate lets the person of id pass
PassingCandidates(d, first_name, last_name, passing) ==
  { id \in PersonIds(d) :
      SimGe(Score(d, id, first_name, last_name), Threshold) /\ passing[id] }

\* person is the first of the passing candidates, or a new person when
\* there is none
FirstPassing(d, first_name, last_name, passing, person) ==
  \E cands \in {PassingCandidates(d, first_name, last_name, passing)} :
     IF cands = {} THEN person \notin PersonIds(d)
     ELSE /\ person \in cands
          /\ \A other \in cands \ {person} :
                Precedes(Score(d, person, first_name, last_name), person,
                         Score(d, other, first_name, last_name), other)

\* the resolver of the step accepted the first candidate that passes its gate
FirstPassingAccepted ==
  LET ev == call'.event
  IN CASE call'.kind = "birth" ->
            FirstPassing(db, ev.first_name, ev.last_name,
                         [id \in PersonIds(db) |->
                            BirthGate(PersonRow(db, id),
                                      IF FalsyInt(ev.year) THEN NoDate
                                      ELSE MakeDate(ev.year, ev.month, ev.day),
                                      ev.location) # 0],
                         call'.persons[1])
       [] call'.kind = "death" ->
            FirstPassing(db, ev.first_name, ev.last_name,
                         [id \in PersonIds(db) |->
                            DeathGate(PersonRow(db, id),
                                      ImpliedBirthYear(ev.year, ev.age)) # 0],
                         call'.persons[1])
       [] call'.kind = "marriage" ->
            \A k \in 1..2 :
               \E d \in {ResolvedAgainst(db, ev, k)}, who \in {Participant(ev, k)} :
                  FirstPassing(d, who.first_name, who.last_name,
                               [id \in PersonIds(d) |->
                                  MarriageGate(PersonRow(d, id),
                                               ImpliedBirthYear(ev.year, who.age),
                                               who.location) # 0],
                               call'.persons[k])

MatchesWithTie ==
  /\ call.op = "find_matches"
  /\ \E i, j \in 1..Len(call.matches) :
        i < j /\ SimEq(call.matches[i].similarity, call.matches[j].similarity)

\* a birth has been resolved to a candidate that is not the best-scoring one
SecondCandidateAccepted ==
  /\ call.op = "resolve"
  /\ call.kind = "birth"
  /\ \E id \in PersonIds(db) \ {call.persons[1]} :
        SimGt(Score(db, id, call.event.first_name, call.event.last_name),
              Score(db, call.persons[1], call.event.first_name, call.event.last_name))
  /\ Len(SelectSeq(db.birth_events, LAMBDA e : e.person_id = call.persons[1])) >= 2

\* C28: after any sequence of imports no relationship has parent_id equal to
\* child_id: a parent lookup never resolves to the child being linked, even
\* when the father's first name matches the child's
C28_NoSelfParentAfterImports ==
  \A i \in 1..Len(db.relationships) :
     db.relationships[i].parent_id # db.relationships[i].child_id

\* the rows that link a person to itself
SelfLinks(d) ==
  {<<"relationship", i>> : i \in {j \in 1..Len(d.relationships) :
      d.relationships[j].parent_id = d.relationships[j].child_id}}
  \cup {<<"marriage", i>> : i \in {j \in 1..Len(d.marriages) :
      d.marriages[j].person1_id = d.marriages[j].person2_id}}

\* C29: merge(keep, drop) with keep # drop never creates a relationship whose
\* parent_id equals its child_id nor a marriage whose two person ids are
\* equal, even when drop is a parent, a child or a spouse of keep
C29_MergeCreatesNoSelfLink ==
  [][ (call'.op = "merge" /\ call'.keep # call'.drop /\ SelfLinks(db) = {})
        => SelfLinks(db') = {} ]_vars

\* what does hold: a merge of two persons that are not linked to each other
\* creates no self-link
MergeOfUnlinkedCreatesNoSelfLink ==
  [][ (/\ call'.op = "merge" /\ call'.keep # call'.drop /\ SelfLinks(db) = {}
       /\ ~HasRelationship(db, call'.keep, call'.drop)
       /\ ~HasRelationship(db, call'.drop, call'.keep)
       /\ ~HasMarriage(db, call'.keep, call'.drop))
        => SelfLinks(db') = {} ]_vars

\* C30: merge(x, x) with the same known id given as both keep and merge
\* never removes person x: after the call get_person(x) still returns the
\* person, with its relationships and marriages unchanged
C30_MergeWithItselfKeepsPerson ==
  [][ (call'.op = "merge" /\ call'.keep = call'.drop /\ call'.keep \in PersonIds(db))
        => /\ call'.keep \in PersonIds(db')
           /\ get_person_by_id(db', call'.keep) = get_person_by_id(db, call'.keep) ]_vars

\* what does hold: merge(x, x) leaves every other person as stored
MergeWithItselfKeepsOthers ==
  [][ (call'.op = "merge" /\ call'.keep = call'.drop /\ call'.keep \in PersonIds(db))
        => \A id \in PersonIds(db) \ {call'.keep} :
              /\ id \in PersonIds(db')
              /\ PersonRow(db', id) = PersonRow(db, id) ]_vars

====
